---- MODULE Spec2Model ----
(***************************************************************************)
(* thrusftp: the SFTP-v3 request engine (thrusftp-server/src/lib.rs), its  *)
(* thrussh glue (thrusftp-server/src/thrussh.rs) and the first revision of *)
(* the server (thrusftp/src/main.rs), as state machines.                   *)
(*                                                                         *)
(*   Spec        the engine, one action per whole request                  *)
(*   SpecConc    the engine's lock steps, concurrent callers of process    *)
(*   SpecConcFair  SpecConc under the runtime's scheduling                  *)
(*   SpecLegacy  the first revision's Client (main.rs)                     *)
(*   SpecWire    the channel callbacks and the framing (thrussh.rs)        *)
(*   SpecLocalFs the local backend's read and readdir (thrusftp/src/fs.rs) *)
(*   SpecCodec   the wire codec applied to one value (parse.rs, bin-ser)    *)
(***************************************************************************)
EXTENDS Naturals, Sequences, FiniteSets, TLC

VARIABLES
    clients,      \* SftpServer.clients: session handle -> SftpClient.handles
    conn,         \* thrussh Client per connection: [state, handle]
    fsOpen,       \* backend resources that are open (returned by open/opendir)
    out,          \* the last request processed, its response and backend call
    pc,           \* SpecConc: where each caller of process() stands
    tcli,         \* SpecConc: client_handle argument of the call
    tcall,        \* SpecConc: the suspended backend call (request + dispatch)
    regReaders,   \* SpecConc: holders of clients.read()
    regWriter,    \* SpecConc: holder of clients.write() (a connection) or 0
    sessLock,     \* SpecConc: session handle -> holder of client.write() or 0
    file_handles, \* SpecLegacy: Client.file_handles
    dir_handles,  \* SpecLegacy: Client.dir_handles
    alive,        \* SpecLegacy: FALSE once the handler has panicked
    lout,         \* SpecLegacy: the last request and what came of it
    fs,           \* SftpServer.fs: which optional parts of trait Fs it overrides
    chan,         \* SpecWire: the channel ("open", "closed", "crashed")
    reply,        \* SpecWire: the last channel request and its answer
    sftp,         \* SpecWire: a subsystem request named "sftp" was accepted
    recv_buf,     \* SpecWire: Client.recv_buf
    wire,         \* SpecWire: the bytes the peer has still to send
    log,          \* SpecWire: one entry per frame handed to the decoder
    chanOut,      \* SpecWire: the responses given to session.data, in order
    din,          \* SpecWire: the call of Client::data in progress
    rd,           \* SpecLocalFs: the call of LocalFs::read in progress
    dir,          \* SpecLocalFs: a directory handle and the Readdir answers
    cx            \* SpecCodec: a value, its encoding and what that decodes to

engineVars == <<clients, conn, fsOpen, out>>
concVars   == <<pc, tcli, tcall, regReaders, regWriter, sessLock>>
legacyVars == <<file_handles, dir_handles, alive, lout>>
wireVars   == <<chan, reply, sftp, recv_buf, wire, log, chanOut, din>>
localVars  == <<rd, dir, cx>>
vars == <<clients, conn, fsOpen, out, pc, tcli, tcall, regReaders, regWriter,
          sessLock, file_handles, dir_handles, alive, lout, fs, chan, reply,
          sftp, recv_buf, wire, log, chanOut, din,
          rd, dir, cx>>

(***************************************************************************)
(* Bounds                                                                  *)
(***************************************************************************)
NumConns == 2      \* transport connections that are ever accepted
MaxRes   == 2      \* resources the backend can hold open at once
NumTasks == 2      \* concurrent callers of SftpServer::process (SpecConc)

Conns == 1..NumConns
Tasks == 1..NumTasks
Ids   == {1, 2}                 \* request ids
Names == {"a"}                  \* paths and filenames of requests

(***************************************************************************)
(* Packets (thrusftp-protocol types)                                       *)
(***************************************************************************)
PathKinds    == {"Realpath", "Lstat", "Stat", "Setstat", "Remove", "Mkdir",
                 "Rmdir", "Readlink", "Statvfs"}
TwoPathKinds == {"Rename", "Symlink", "PosixRename", "Hardlink"}
FileKinds    == {"Read", "Write", "Fstat", "Fsetstat", "Fsync"}
HandleKinds  == FileKinds \cup {"Readdir", "Close"}
OpenKinds    == {"Open", "Opendir"}

Req(k, i, p, q, h) == [kind |-> k, id |-> i, path |-> p, path2 |-> q, handle |-> h]

InitPacket == Req("Init", 0, "", "", "")

ExtNames == <<"statvfs@openssh.com", "posix-rename@openssh.com",
              "fsync@openssh.com", "hardlink@openssh.com">>

\* version is the field of Version (0 in the other variants, which have none)
Resp(t, i, c, h, e) ==
    [type |-> t, id |-> i, code |-> c, handle |-> h, ext |-> e, version |-> 0]

\* the failure kinds a backend call can end with: an io::Error kind, or an
\* anyhow error that is no io::Error
ErrKinds == {"NotFound", "UnexpectedEof", "PermissionDenied", "Unsupported",
             "InvalidInput", "InvalidData", "AlreadyExists", "OtherIo", "NotIo"}
Outcomes == {"Ok"} \cup ErrKinds

\* a Status that carries no request id
status_resp_NoId(id, status_code) == Resp("Status", 0, status_code, "", <<>>)

status_resp(id, status_code) == Resp("Status", id, status_code, "", <<>>)

\* the mapping without the Unsupported arm (as thrusftp/src/server.rs has it)
ErrorCode_NoUnsupported(err) ==
    CASE err = "NotFound"         -> "NoSuchFile"
      [] err = "UnexpectedEof"    -> "Eof"
      [] err = "PermissionDenied" -> "PermissionDenied"
      [] err = "InvalidInput"     -> "BadMessage"
      [] err = "InvalidData"      -> "BadMessage"
      [] OTHER                    -> "Failure"

ErrorCode(err) ==
    CASE err = "NotFound"         -> "NoSuchFile"
      [] err = "UnexpectedEof"    -> "Eof"
      [] err = "PermissionDenied" -> "PermissionDenied"
      [] err = "Unsupported"      -> "OpUnsupported"
      [] err = "InvalidInput"     -> "BadMessage"
      [] err = "InvalidData"      -> "BadMessage"
      [] OTHER                    -> "Failure"

error_resp(id, err) == Resp("Status", id, ErrorCode(err), "", <<>>)

result_resp(id, r) == IF r = "Ok" THEN status_resp(id, "Ok") ELSE error_resp(id, r)

(***************************************************************************)
(* Handle allocation: format!("{}{}", name, num) with num = 0, 1, ...      *)
(***************************************************************************)
Digit(d) == CASE d = 0 -> "0" [] d = 1 -> "1" [] d = 2 -> "2" [] d = 3 -> "3"
              [] d = 4 -> "4" [] d = 5 -> "5" [] d = 6 -> "6" [] d = 7 -> "7"
              [] d = 8 -> "8" [] d = 9 -> "9"

RECURSIVE ToDec(_)
ToDec(n) == IF n < 10 THEN Digit(n) ELSE ToDec(n \div 10) \o Digit(n % 10)

Format(name, num) == name \o ToDec(num)

RECURSIVE AllocFrom(_, _, _)
AllocFrom(keys, name, num) ==
    IF Format(name, num) \notin keys THEN Format(name, num)
    ELSE AllocFrom(keys, name, num + 1)

\* the suffix taken from the size of the table instead of the first free one
AllocHandle_Count(keys, name) == Format(name, Cardinality(keys))

AllocHandle(keys, name) == AllocFrom(keys, name, 0)

\* the handle strings a request may name: all that can be handed out
HandleArgs == {Format(n, i) : n \in Names, i \in 0..(MaxRes - 1)}

SftpClientPacket ==
         {Req(k, i, p, "", "") : k \in PathKinds \cup OpenKinds, i \in Ids, p \in Names}
    \cup {Req(k, i, p, q, "")  : k \in TwoPathKinds, i \in Ids, p \in Names, q \in Names}
    \cup {Req(k, i, "", "", h) : k \in HandleKinds, i \in Ids, h \in HandleArgs}

(***************************************************************************)
(* Handle tables: HashMap<String, FsHandle<F, D>>                          *)
(***************************************************************************)
EmptyTable == [h \in {} |-> 0]
FsHandle(k, r) == [kind |-> k, res |-> r]
NoHandle == FsHandle("None", 0)

Insert(t, h, e) == [x \in DOMAIN t \cup {h} |-> IF x = h THEN e ELSE t[x]]
Remove(t, h)    == [x \in DOMAIN t \ {h} |-> t[x]]
Get(t, h)       == IF h \in DOMAIN t THEN t[h] ELSE NoHandle

(***************************************************************************)
(* SftpServer::process_internal, in two halves: what runs before the       *)
(* backend call is awaited (Dispatch) and what runs on its result          *)
(* (Complete).  The session lock is held across both.                      *)
(***************************************************************************)
\* the posix-rename extension calling the backend's rename
FsOp_PosixAsRename(k) ==
    CASE k = "Realpath" -> "realpath"  [] k = "Opendir"  -> "opendir"
      [] k = "Readdir"  -> "readdir"   [] k = "Close"    -> "close"
      [] k = "Lstat"    -> "lstat"     [] k = "Stat"     -> "stat"
      [] k = "Fstat"    -> "fstat"     [] k = "Open"     -> "open"
      [] k = "Read"     -> "read"      [] k = "Write"    -> "write"
      [] k = "Setstat"  -> "setstat"   [] k = "Fsetstat" -> "fsetstat"
      [] k = "Remove"   -> "remove"    [] k = "Mkdir"    -> "mkdir"
      [] k = "Rmdir"    -> "rmdir"     [] k = "Rename"   -> "rename"
      [] k = "Symlink"  -> "symlink"   [] k = "Readlink" -> "readlink"
      [] k = "Statvfs"  -> "statvfs"   [] k = "PosixRename" -> "rename"
      [] k = "Hardlink" -> "hardlink"  [] k = "Fsync"    -> "fsync"

FsOp(k) ==
    CASE k = "Realpath" -> "realpath"  [] k = "Opendir"  -> "opendir"
      [] k = "Readdir"  -> "readdir"   [] k = "Close"    -> "close"
      [] k = "Lstat"    -> "lstat"     [] k = "Stat"     -> "stat"
      [] k = "Fstat"    -> "fstat"     [] k = "Open"     -> "open"
      [] k = "Read"     -> "read"      [] k = "Write"    -> "write"
      [] k = "Setstat"  -> "setstat"   [] k = "Fsetstat" -> "fsetstat"
      [] k = "Remove"   -> "remove"    [] k = "Mkdir"    -> "mkdir"
      [] k = "Rmdir"    -> "rmdir"     [] k = "Rename"   -> "rename"
      [] k = "Symlink"  -> "symlink"   [] k = "Readlink" -> "readlink"
      [] k = "Statvfs"  -> "statvfs"   [] k = "PosixRename" -> "posix_rename"
      [] k = "Hardlink" -> "hardlink"  [] k = "Fsync"    -> "fsync"

NoResp == Resp("None", 0, "", "", <<>>)

\* op: the backend operation to call ("none": answered without the backend);
\* handles: the table as the call is made; cand: the handle chosen for
\* Open/Opendir; fsh: the table entry handed to the backend
Disp(o, t, c, f, r) == [op |-> o, handles |-> t, cand |-> c, fsh |-> f, resp |-> r]

BadHandle(handles, req) ==
    Disp("none", handles, "", NoHandle, status_resp(req.id, "BadMessage"))

\* Readdir and the file operations accepting a handle of either kind
Dispatch_AnyKind(handles, req) ==
    LET k == req.kind
        e == Get(handles, req.handle)
    IN  CASE k \in OpenKinds ->
               Disp(FsOp(k), handles, AllocHandle(DOMAIN handles, req.path),
                    NoHandle, NoResp)
          [] k = "Close" ->
               IF req.handle \in DOMAIN handles
               THEN Disp("close", Remove(handles, req.handle), "", e, NoResp)
               ELSE BadHandle(handles, req)
          [] k \in FileKinds \cup {"Readdir"} ->
               IF req.handle \in DOMAIN handles
               THEN Disp(FsOp(k), handles, "", e, NoResp)
               ELSE BadHandle(handles, req)
          [] OTHER -> Disp(FsOp(k), handles, "", NoHandle, NoResp)

\* Close looking the handle up (get) instead of taking it out (remove)
Dispatch_CloseKeeps(handles, req) ==
    LET k == req.kind
        e == Get(handles, req.handle)
    IN  CASE k \in OpenKinds ->
               Disp(FsOp(k), handles, AllocHandle(DOMAIN handles, req.path),
                    NoHandle, NoResp)
          [] k = "Readdir" ->
               IF e.kind = "Dir"
               THEN Disp("readdir", handles, "", e, NoResp)
               ELSE BadHandle(handles, req)
          [] k = "Close" ->
               IF req.handle \in DOMAIN handles
               THEN Disp("close", handles, "", e, NoResp)
               ELSE BadHandle(handles, req)
          [] k \in FileKinds ->
               IF e.kind = "File"
               THEN Disp(FsOp(k), handles, "", e, NoResp)
               ELSE BadHandle(handles, req)
          [] OTHER -> Disp(FsOp(k), handles, "", NoHandle, NoResp)

Dispatch(handles, req) ==
    LET k == req.kind
        e == Get(handles, req.handle)
    IN  CASE k \in OpenKinds ->
               Disp(FsOp(k), handles, AllocHandle(DOMAIN handles, req.path),
                    NoHandle, NoResp)
          [] k = "Readdir" ->
               IF e.kind = "Dir"
               THEN Disp("readdir", handles, "", e, NoResp)
               ELSE BadHandle(handles, req)
          [] k = "Close" ->
               IF req.handle \in DOMAIN handles
               THEN Disp("close", Remove(handles, req.handle), "", e, NoResp)
               ELSE BadHandle(handles, req)
          [] k \in FileKinds ->
               IF e.kind = "File"
               THEN Disp(FsOp(k), handles, "", e, NoResp)
               ELSE BadHandle(handles, req)
          [] OTHER -> Disp(FsOp(k), handles, "", NoHandle, NoResp)

Done(t, r) == [handles |-> t, resp |-> r]

\* Stat sharing the arm of Realpath
SuccessResp_StatAsName(req, d) ==
    LET k == req.kind
    IN  CASE k \in OpenKinds -> Resp("Handle", req.id, "", d.cand, <<>>)
          [] k \in {"Readdir", "Realpath", "Readlink", "Stat"} ->
               Resp("Name", req.id, "", "", <<>>)
          [] k \in {"Lstat", "Fstat"} -> Resp("Attrs", req.id, "", "", <<>>)
          [] k = "Read" -> Resp("Data", req.id, "", "", <<>>)
          [] k = "Statvfs" -> Resp("ExtendedReply", req.id, "", "", <<>>)
          [] OTHER -> status_resp(req.id, "Ok")

\* the response variant built from a successful backend result
SuccessResp(req, d) ==
    LET k == req.kind
    IN  CASE k \in OpenKinds -> Resp("Handle", req.id, "", d.cand, <<>>)
          [] k \in {"Readdir", "Realpath", "Readlink"} -> Resp("Name", req.id, "", "", <<>>)
          [] k \in {"Lstat", "Stat", "Fstat"} -> Resp("Attrs", req.id, "", "", <<>>)
          [] k = "Read" -> Resp("Data", req.id, "", "", <<>>)
          [] k = "Statvfs" -> Resp("ExtendedReply", req.id, "", "", <<>>)
          [] OTHER -> status_resp(req.id, "Ok")

\* Close putting the entry back when the backend close fails
Complete_CloseRestores(d, req, r, res) ==
    LET k == req.kind
    IN  IF r # "Ok"
        THEN Done(IF k = "Close" THEN Insert(d.handles, req.handle, d.fsh)
                  ELSE d.handles,
                  error_resp(req.id, r))
        ELSE CASE k = "Open" ->
                    Done(Insert(d.handles, d.cand, FsHandle("File", res)),
                         SuccessResp(req, d))
               [] k = "Opendir" ->
                    Done(Insert(d.handles, d.cand, FsHandle("Dir", res)),
                         SuccessResp(req, d))
               [] OTHER -> Done(d.handles, SuccessResp(req, d))

\* Open/Opendir inserting the candidate before looking at the backend result
Complete_InsertFirst(d, req, r, res) ==
    LET k == req.kind
        t == CASE k = "Open" -> Insert(d.handles, d.cand, FsHandle("File", res))
               [] k = "Opendir" -> Insert(d.handles, d.cand, FsHandle("Dir", res))
               [] OTHER -> d.handles
    IN  IF r # "Ok" THEN Done(t, error_resp(req.id, r))
        ELSE Done(t, SuccessResp(req, d))

\* a handle dropped from the table when its Read or Readdir reaches the end
Complete_EofDrops(d, req, r, res) ==
    LET k == req.kind
    IN  IF r = "UnexpectedEof" /\ k \in {"Read", "Readdir"}
        THEN Done(Remove(d.handles, req.handle), error_resp(req.id, r))
        ELSE IF r # "Ok" THEN Done(d.handles, error_resp(req.id, r))
        ELSE CASE k = "Open" ->
                    Done(Insert(d.handles, d.cand, FsHandle("File", res)),
                         SuccessResp(req, d))
               [] k = "Opendir" ->
                    Done(Insert(d.handles, d.cand, FsHandle("Dir", res)),
                         SuccessResp(req, d))
               [] OTHER -> Done(d.handles, SuccessResp(req, d))

\* r: the backend call's outcome; res: the resource a successful open returned
Complete(d, req, r, res) ==
    LET k == req.kind
    IN  IF r # "Ok" THEN Done(d.handles, error_resp(req.id, r))
        ELSE CASE k = "Open" ->
                    Done(Insert(d.handles, d.cand, FsHandle("File", res)),
                         SuccessResp(req, d))
               [] k = "Opendir" ->
                    Done(Insert(d.handles, d.cand, FsHandle("Dir", res)),
                         SuccessResp(req, d))
               [] OTHER -> Done(d.handles, SuccessResp(req, d))

\* Init: the capability predicates choose the extensions of Version
Extension(i) == [name |-> ExtNames[i], data |-> IF i = 1 THEN "2" ELSE "1"]

\* every extension pushed, whatever the predicates return
RECURSIVE Extensions_All(_, _)
Extensions_All(caps, i) ==
    IF i > Len(ExtNames) THEN <<>>
    ELSE <<Extension(i)>> \o Extensions_All(caps, i + 1)

RECURSIVE Extensions(_, _)
Extensions(caps, i) ==
    IF i > Len(ExtNames) THEN <<>>
    ELSE (IF i \in caps THEN <<Extension(i)>> ELSE <<>>) \o Extensions(caps, i + 1)

VersionResp(caps) ==
    [Resp("Version", 0, "", "", Extensions(caps, 1)) EXCEPT !.version = 3]

(***************************************************************************)
(* The backend (trait Fs): opaque resources, any call may fail             *)
(***************************************************************************)
\* the optional operations, in the order of their extensions (ExtNames)
ExtOps      == <<"statvfs", "posix_rename", "fsync", "hardlink">>
OptionalOps == {ExtOps[i] : i \in 1..Len(ExtOps)}

\* an implementation of Fs: ops are the optional operations it overrides,
\* sup the extensions whose *_supported() it overrides to return true
Backend(ops, sup) == [ops |-> ops, sup |-> sup]
DefaultFs == Backend({}, {})
Backends  == {DefaultFs,
              Backend({"statvfs", "fsync"}, {1, 3}),
              Backend(OptionalOps, 1..Len(ExtOps))}

\* statvfs_supported() .. hardlink_supported(): false unless overridden
Supported(f) == {i \in 1..Len(ExtOps) : i \in f.sup}

\* what the call of op returns when the operation itself would end with r:
\* an optional operation that is not overridden is the trait's body,
\* Err(Unsupported); rename reports an existing destination as
\* AlreadyExists, posix_rename renames over it
FsResult(f, op, r) ==
    CASE op \in OptionalOps \ f.ops -> "Unsupported"
      [] op = "rename" /\ r = "DestExists" -> "AlreadyExists"
      [] op = "posix_rename" /\ r = "DestExists" -> "Ok"
      [] OTHER -> r

FreeRes(open) == {r \in 1..MaxRes : r \notin open}
NewRes(open)  == CHOOSE r \in FreeRes(open) : \A s \in FreeRes(open) : r <= s

\* open/opendir can succeed only while the backend has a resource to give
CanEnd(open, op, r) == (op \in {"open", "opendir"} /\ r = "Ok") => FreeRes(open) # {}

\* the open resources after the call: close consumes its FsHandle whatever
\* it returns
FsAfter(open, d, r, res) ==
    CASE d.op \in {"open", "opendir"} /\ r = "Ok" -> open \cup {res}
      [] d.op = "close" -> open \ {d.fsh.res}
      [] OTHER -> open

(***************************************************************************)
(* Spec: connections come and go, each request is one step                 *)
(***************************************************************************)
\* op: the backend operation the request invoked ("none": not any);
\* r: how that call ended
Observed(h, req, resp, op, r) ==
    [cli |-> h, req |-> req, resp |-> resp, op |-> op, r |-> r]
NoOut == Observed("", Req("None", 0, "", "", ""), NoResp, "none", "Ok")
\* no backend call is suspended (r: the resource a suspended close names)
NoPending == Observed("", Req("None", 0, "", "", ""), NoResp, "none", 0)

ConnRec(s, h) == [state |-> s, handle |-> h]

\* a channel request (thrussh Handler::shell_request / subsystem_request),
\* the answer it got (channel_success or channel_failure) and the text sent
\* on the channel with it
ChanReply(req, name, answer) ==
    [req |-> req, name |-> name, answer |-> answer, text |-> ""]
NoReply == ChanReply("none", "", "none")

ConcIdle ==
    /\ pc = [t \in Tasks |-> "idle"]
    /\ tcli = [t \in Tasks |-> ""]
    /\ tcall = [t \in Tasks |-> NoPending]
    /\ regReaders = {}
    /\ regWriter = 0
    /\ sessLock = EmptyTable

LegacyIdle ==
    /\ file_handles = EmptyTable
    /\ dir_handles = EmptyTable
    /\ alive = TRUE
    /\ lout = NoOut

\* no read in progress, no directory opened
NoRead ==
    [stage |-> "idle", offset |-> 0, len |-> 0, data |-> <<>>, read_len |-> 0,
     total_read_len |-> 0, pos |-> 0, chunks |-> 0, result |-> <<>>]
NoDir == [entries |-> <<>>, next |-> 0, resps |-> <<>>, failed |-> FALSE]

NoCodec == [stage |-> "idle", kind |-> "", val |-> <<>>, bytes |-> <<>>,
            back |-> <<>>]

LocalIdle ==
    /\ rd = NoRead
    /\ dir = NoDir
    /\ cx = NoCodec

\* Client::data is not running; else pc is where it stands, data the rest
\* of its argument and packet the packet it decoded last
InData(at, d, packet) == [pc |-> at, data |-> d, packet |-> packet]
NoData == InData("idle", <<>>, <<>>)

WireIdle ==
    /\ chan = "open"
    /\ reply = NoReply
    /\ sftp = FALSE
    /\ recv_buf = <<>>
    /\ wire = <<>>
    /\ log = <<>>
    /\ chanOut = <<>>
    /\ din = NoData

Init ==
    /\ clients = EmptyTable
    /\ conn = [c \in Conns |-> ConnRec("none", "")]
    /\ fsOpen = {}
    /\ out = NoOut
    /\ fs \in Backends
    /\ ConcIdle
    /\ LegacyIdle
    /\ LocalIdle
    /\ WireIdle

\* the key always start_str followed by 0: the loop over num left out
create_client_handle_Zero(reg, start_str) ==
    LET handle == Format(start_str, 0)
    IN  [handle |-> handle, clients |-> Insert(reg, handle, EmptyTable)]

\* Server::new: create_client_handle("client") inserts a fresh session
create_client_handle(reg, start_str) ==
    LET handle == AllocHandle(DOMAIN reg, start_str)
    IN  [handle |-> handle, clients |-> Insert(reg, handle, EmptyTable)]

Connect(c) ==
    /\ conn[c].state = "none"
    /\ LET n == create_client_handle(clients, "client")
       IN  /\ clients' = n.clients
           /\ conn' = [conn EXCEPT ![c] = ConnRec("open", n.handle)]
    /\ UNCHANGED <<fsOpen, out>>
    /\ UNCHANGED concVars
    /\ UNCHANGED legacyVars
    /\ UNCHANGED fs
    /\ UNCHANGED wireVars
    /\ UNCHANGED localVars

\* the connection ends: thrussh drops the Client handler; Client has no Drop
\* and nothing removes a key from SftpServer.clients
Disconnect(c) ==
    /\ conn[c].state = "open"
    /\ out.cli # conn[c].handle
    /\ conn' = [conn EXCEPT ![c].state = "closed"]
    /\ UNCHANGED <<clients, fsOpen, out>>
    /\ UNCHANGED concVars
    /\ UNCHANGED legacyVars
    /\ UNCHANGED fs
    /\ UNCHANGED wireVars
    /\ UNCHANGED localVars

\* one table for all sessions: a handle the caller does not hold is looked
\* up in the table of a session that does
process_AnyTable(h, req, r) ==
    LET g   == IF req.handle \in DOMAIN clients[h]
                  \/ \A x \in DOMAIN clients : req.handle \notin DOMAIN clients[x]
               THEN h
               ELSE CHOOSE x \in DOMAIN clients : req.handle \in DOMAIN clients[x]
        d   == Dispatch(clients[g], req)
        res == IF FreeRes(fsOpen) = {} THEN 0 ELSE NewRes(fsOpen)
        e   == Complete(d, req, FsResult(fs, d.op, r), res)
    IN  IF d.op = "none"
        THEN /\ r = "Ok"
             /\ clients' = [clients EXCEPT ![g] = d.handles]
             /\ out' = Observed(h, req, d.resp, "none", "Ok")
             /\ UNCHANGED fsOpen
        ELSE /\ CanEnd(fsOpen, d.op, r)
             /\ r = "DestExists" => d.op \in {"rename", "posix_rename"}
             /\ d.op \in OptionalOps \ fs.ops => r = "Unsupported"
             /\ clients' = [clients EXCEPT ![g] = e.handles]
             /\ fsOpen' = FsAfter(fsOpen, d, r, res)
             /\ out' = Observed(h, req, e.resp, d.op, r)

\* SftpServer::process for one request, start to end.  r: how the operation
\* ends ("DestExists": a rename finds its destination present)
process(h, req, r) ==
    LET d   == Dispatch(clients[h], req)
        res == IF FreeRes(fsOpen) = {} THEN 0 ELSE NewRes(fsOpen)
        e   == Complete(d, req, FsResult(fs, d.op, r), res)
    IN  IF d.op = "none"
        THEN /\ r = "Ok"
             /\ clients' = [clients EXCEPT ![h] = d.handles]
             /\ out' = Observed(h, req, d.resp, "none", "Ok")
             /\ UNCHANGED fsOpen
        ELSE /\ CanEnd(fsOpen, d.op, r)
             /\ r = "DestExists" => d.op \in {"rename", "posix_rename"}
             /\ d.op \in OptionalOps \ fs.ops => r = "Unsupported"
             /\ clients' = [clients EXCEPT ![h] = e.handles]
             /\ fsOpen' = FsAfter(fsOpen, d, r, res)
             /\ out' = Observed(h, req, e.resp, d.op, r)

\* Client::data, once a whole frame is in recv_buf: decode, process, build
\* the response (queued by Send below)
Request(c) ==
    /\ conn[c].state = "open"
    /\ out = NoOut
    /\ \E req \in SftpClientPacket, r \in Outcomes \cup {"DestExists"} :
           process(conn[c].handle, req, r)
    /\ UNCHANGED <<conn>>
    /\ UNCHANGED concVars
    /\ UNCHANGED legacyVars
    /\ UNCHANGED fs
    /\ UNCHANGED wireVars
    /\ UNCHANGED localVars

RequestInit(c) ==
    /\ conn[c].state = "open"
    /\ out = NoOut
    /\ out' = Observed(conn[c].handle, InitPacket, VersionResp(Supported(fs)),
                       "none", "Ok")
    /\ UNCHANGED <<clients, conn, fsOpen>>
    /\ UNCHANGED concVars
    /\ UNCHANGED legacyVars
    /\ UNCHANGED fs
    /\ UNCHANGED wireVars
    /\ UNCHANGED localVars

\* Client::data: session.data(channel, resp_buf) hands the response over
Send(c) ==
    /\ conn[c].state = "open"
    /\ out # NoOut
    /\ out.cli = conn[c].handle
    /\ out' = NoOut
    /\ UNCHANGED <<clients, conn, fsOpen>>
    /\ UNCHANGED concVars
    /\ UNCHANGED legacyVars
    /\ UNCHANGED fs
    /\ UNCHANGED wireVars
    /\ UNCHANGED localVars

Next ==
    \E c \in Conns :
        Connect(c) \/ Request(c) \/ RequestInit(c) \/ Send(c) \/ Disconnect(c)

Spec == Init /\ [][Next]_vars

(***************************************************************************)
(* SpecConc: SftpServer::create_client_handle, process and                 *)
(* process_internal step by step, with the registry's RwLock and each      *)
(* session's RwLock, called by NumTasks concurrent tasks.                  *)
(***************************************************************************)
ConcKinds    == {"Open", "Opendir", "Close", "Read", "Readdir", "Stat"}
ConcPackets  == {q \in SftpClientPacket : q.kind \in ConcKinds /\ q.id = 1}
ConcOutcomes == {"Ok", "OtherIo"}

\* what a task suspended in a backend call holds on to
Pending(req, d) ==
    Observed("", req,
             Resp("None", 0, "", d.cand, <<>>),
             d.op,
             IF d.op = "close" THEN d.fsh.res ELSE 0)

PendingDisp(p, handles) ==
    Disp(p.op, handles, p.resp.handle, FsHandle("None", p.r), NoResp)

InSession(t) == pc[t] \in {"held", "backend"}

\* create_client_handle: clients.write().await
CreateBegin(c) ==
    /\ conn[c].state = "none"
    /\ regWriter = 0
    /\ regReaders = {}
    /\ regWriter' = c
    /\ conn' = [conn EXCEPT ![c].state = "creating"]
    /\ UNCHANGED <<clients, fsOpen, out, pc, tcli, tcall, regReaders, sessLock>>
    /\ UNCHANGED legacyVars
    /\ UNCHANGED fs
    /\ UNCHANGED wireVars
    /\ UNCHANGED localVars

\* create_client_handle: choose the key, insert the session, drop the guard
CreateEnd(c) ==
    /\ regWriter = c
    /\ LET n == create_client_handle(clients, "client")
       IN  /\ clients' = n.clients
           /\ conn' = [conn EXCEPT ![c] = ConnRec("open", n.handle)]
           /\ sessLock' = Insert(sessLock, n.handle, 0)
    /\ regWriter' = 0
    /\ UNCHANGED <<fsOpen, out, pc, tcli, tcall, regReaders>>
    /\ UNCHANGED legacyVars
    /\ UNCHANGED fs
    /\ UNCHANGED wireVars
    /\ UNCHANGED localVars

\* process: clients.read().await, for a handle create_client_handle returned
Call(t, h) ==
    /\ pc[t] = "idle"
    /\ \E c \in Conns : conn[c].state = "open" /\ conn[c].handle = h
    /\ regWriter = 0
    /\ regReaders' = regReaders \cup {t}
    /\ pc' = [pc EXCEPT ![t] = "registry"]
    /\ tcli' = [tcli EXCEPT ![t] = h]
    /\ UNCHANGED <<clients, conn, fsOpen, out, tcall, regWriter, sessLock>>
    /\ UNCHANGED legacyVars
    /\ UNCHANGED fs
    /\ UNCHANGED wireVars
    /\ UNCHANGED localVars

\* the lookup with the registry's guard kept for the rest of process
Lookup_KeepGuard(t) ==
    /\ pc[t] = "registry"
    /\ tcli[t] \in DOMAIN clients
    /\ pc' = [pc EXCEPT ![t] = "lock"]
    /\ UNCHANGED <<clients, conn, fsOpen, out, tcli, tcall, regReaders, regWriter,
                   sessLock>>
    /\ UNCHANGED legacyVars
    /\ UNCHANGED fs
    /\ UNCHANGED wireVars
    /\ UNCHANGED localVars

\* process: clients.get(client_handle).unwrap().clone(); the guard is dropped
Lookup(t) ==
    /\ pc[t] = "registry"
    /\ tcli[t] \in DOMAIN clients
    /\ regReaders' = regReaders \ {t}
    /\ pc' = [pc EXCEPT ![t] = "lock"]
    /\ UNCHANGED <<clients, conn, fsOpen, out, tcli, tcall, regWriter, sessLock>>
    /\ UNCHANGED legacyVars
    /\ UNCHANGED fs
    /\ UNCHANGED wireVars
    /\ UNCHANGED localVars

\* the session's guard taken without waiting for its holder
Acquire_NoWait(t) ==
    /\ pc[t] = "lock"
    /\ sessLock' = [sessLock EXCEPT ![tcli[t]] = t]
    /\ pc' = [pc EXCEPT ![t] = "held"]
    /\ UNCHANGED <<clients, conn, fsOpen, out, tcli, tcall, regReaders, regWriter>>
    /\ UNCHANGED legacyVars
    /\ UNCHANGED fs
    /\ UNCHANGED wireVars
    /\ UNCHANGED localVars

\* one lock for all sessions instead of one per session
Acquire_OneLock(t) ==
    /\ pc[t] = "lock"
    /\ \A h \in DOMAIN sessLock : sessLock[h] = 0
    /\ sessLock' = [sessLock EXCEPT ![tcli[t]] = t]
    /\ pc' = [pc EXCEPT ![t] = "held"]
    /\ UNCHANGED <<clients, conn, fsOpen, out, tcli, tcall, regReaders, regWriter>>
    /\ UNCHANGED legacyVars
    /\ UNCHANGED fs
    /\ UNCHANGED wireVars
    /\ UNCHANGED localVars

\* process_internal: client.write().await
Acquire(t) ==
    /\ pc[t] = "lock"
    /\ sessLock[tcli[t]] = 0
    /\ sessLock' = [sessLock EXCEPT ![tcli[t]] = t]
    /\ pc' = [pc EXCEPT ![t] = "held"]
    /\ UNCHANGED <<clients, conn, fsOpen, out, tcli, tcall, regReaders, regWriter>>
    /\ UNCHANGED legacyVars
    /\ UNCHANGED fs
    /\ UNCHANGED wireVars
    /\ UNCHANGED localVars

\* process_internal: match packet, up to the backend call's await; a request
\* answered without the backend returns at once and drops the guard
Enter(t, req) ==
    /\ pc[t] = "held"
    /\ LET h == tcli[t]
           d == Dispatch(clients[h], req)
       IN  /\ clients' = [clients EXCEPT ![h] = d.handles]
           /\ IF d.op = "none"
              THEN /\ pc' = [pc EXCEPT ![t] = "idle"]
                   /\ tcli' = [tcli EXCEPT ![t] = ""]
                   /\ sessLock' = [sessLock EXCEPT ![h] = 0]
                   /\ UNCHANGED tcall
              ELSE /\ pc' = [pc EXCEPT ![t] = "backend"]
                   /\ tcall' = [tcall EXCEPT ![t] = Pending(req, d)]
                   /\ UNCHANGED <<tcli, sessLock>>
    /\ UNCHANGED <<conn, fsOpen, out, regReaders, regWriter>>
    /\ UNCHANGED legacyVars
    /\ UNCHANGED fs
    /\ UNCHANGED wireVars
    /\ UNCHANGED localVars

\* the return that leaves the session's guard taken
Return_KeepLock(t, r) ==
    /\ pc[t] = "backend"
    /\ CanEnd(fsOpen, tcall[t].op, r)
    /\ LET h   == tcli[t]
           d   == PendingDisp(tcall[t], clients[h])
           res == IF FreeRes(fsOpen) = {} THEN 0 ELSE NewRes(fsOpen)
           e   == Complete(d, tcall[t].req, r, res)
       IN  /\ clients' = [clients EXCEPT ![h] = e.handles]
           /\ fsOpen' = FsAfter(fsOpen, d, r, res)
    /\ pc' = [pc EXCEPT ![t] = "idle"]
    /\ tcli' = [tcli EXCEPT ![t] = ""]
    /\ tcall' = [tcall EXCEPT ![t] = NoPending]
    /\ UNCHANGED <<conn, out, regReaders, regWriter, sessLock>>
    /\ UNCHANGED legacyVars
    /\ UNCHANGED fs
    /\ UNCHANGED wireVars
    /\ UNCHANGED localVars

\* process_internal: the backend call returns r, the response is built on the
\* table as it is now, the guard is dropped
Return(t, r) ==
    /\ pc[t] = "backend"
    /\ CanEnd(fsOpen, tcall[t].op, r)
    /\ LET h   == tcli[t]
           d   == PendingDisp(tcall[t], clients[h])
           res == IF FreeRes(fsOpen) = {} THEN 0 ELSE NewRes(fsOpen)
           e   == Complete(d, tcall[t].req, r, res)
       IN  /\ clients' = [clients EXCEPT ![h] = e.handles]
           /\ fsOpen' = FsAfter(fsOpen, d, r, res)
           /\ sessLock' = [sessLock EXCEPT ![h] = IF @ = t THEN 0 ELSE @]
    /\ pc' = [pc EXCEPT ![t] = "idle"]
    /\ tcli' = [tcli EXCEPT ![t] = ""]
    /\ tcall' = [tcall EXCEPT ![t] = NoPending]
    /\ UNCHANGED <<conn, out, regReaders, regWriter>>
    /\ UNCHANGED legacyVars
    /\ UNCHANGED fs
    /\ UNCHANGED wireVars
    /\ UNCHANGED localVars

ConcNext ==
    \/ \E c \in Conns : CreateBegin(c) \/ CreateEnd(c)
    \/ \E t \in Tasks :
           \/ \E h \in DOMAIN clients : Call(t, h)
           \/ Lookup(t)
           \/ Acquire(t)
           \/ \E req \in ConcPackets : Enter(t, req)
           \/ \E r \in ConcOutcomes : Return(t, r)

SpecConc == Init /\ [][ConcNext]_vars

\* the scheduling: a task that can run does (the tokio runtime polls every
\* ready task), a backend call returns, and tokio's RwLock is fair: a task
\* waiting for a lock that is free again and again gets it
ConcFairness ==
    /\ \A c \in Conns : WF_vars(CreateEnd(c))
    /\ \A t \in Tasks :
         /\ WF_vars(Lookup(t))
         /\ SF_vars(Acquire(t))
         /\ WF_vars(\E req \in ConcPackets : Enter(t, req))
         /\ WF_vars(\E r \in ConcOutcomes : Return(t, r))

SpecConcFair == Init /\ [][ConcNext]_vars /\ ConcFairness

(***************************************************************************)
(* SpecLegacy: the first revision (thrusftp/src/main.rs).  One Client per  *)
(* connection with two maps, tokio::fs called directly, and                *)
(* process_packet(..).await.unwrap() in Client::data.                      *)
(***************************************************************************)
\* io_error_resp
LegacyErrorCode(err) ==
    CASE err = "NotFound"         -> "NoSuchFile"
      [] err = "PermissionDenied" -> "PermissionDenied"
      [] err = "InvalidInput"     -> "BadMessage"
      [] err = "InvalidData"      -> "BadMessage"
      [] OTHER                    -> "Failure"

io_error_resp(id, e) == Resp("Status", id, LegacyErrorCode(e), "", <<>>)

io_result_resp(id, r) == IF r = "Ok" THEN status_resp(id, "Ok") ELSE io_error_resp(id, r)

\* how a tokio::fs call can end: Ok, an io::Error, "End" (Ok with nothing
\* left: next_entry() = None, read() = 0) or, for Rename's check of the
\* destination, "DestExists"
LegacyErrKinds == ErrKinds \ {"NotIo"}
LegacyOutcomes(k) ==
    {"Ok"} \cup LegacyErrKinds
           \cup (IF k \in {"Read", "Readdir"} THEN {"End"} ELSE {})
           \cup (IF k = "Rename" THEN {"DestExists"} ELSE {})

AllExtensions == Extensions(1..Len(ExtNames), 1)

\* the value of process_packet: Ok(resp) or Err (ok = FALSE)
LDone(ok, fh, dh, resp, op) ==
    [ok |-> ok, file_handles |-> fh, dir_handles |-> dh, resp |-> resp, op |-> op]

LErr(fh, dh, op) == LDone(FALSE, fh, dh, NoResp, op)

process_packet(fh, dh, req, r, res) ==
    LET k  == req.kind
        id == req.id
        h  == req.handle
        failed == r \in LegacyErrKinds
    IN  CASE k = "Init" ->
               LDone(TRUE, fh, dh, Resp("Version", 0, "", "", AllExtensions), "none")
          [] k = "Realpath" ->
               IF failed THEN LErr(fh, dh, "canonicalize")
               ELSE LDone(TRUE, fh, dh, Resp("Name", id, "", "", <<>>), "canonicalize")
          [] k = "Opendir" ->
               LET handle == AllocHandle(DOMAIN dh, req.path)
               IN  IF failed THEN LErr(fh, dh, "read_dir")
                   ELSE LDone(TRUE, fh, Insert(dh, handle, FsHandle("Dir", res)),
                              Resp("Handle", id, "", handle, <<>>), "read_dir")
          [] k = "Readdir" ->
               IF h \notin DOMAIN dh THEN LErr(fh, dh, "none")
               ELSE IF failed THEN LErr(fh, dh, "next_entry")
               ELSE IF r = "End" THEN LDone(TRUE, fh, dh, status_resp(id, "Eof"), "next_entry")
               ELSE LDone(TRUE, fh, dh, Resp("Name", id, "", "", <<>>), "next_entry")
          [] k = "Close" ->
               IF h \in DOMAIN dh
               THEN LDone(TRUE, fh, Remove(dh, h), status_resp(id, "Ok"), "drop")
               ELSE IF h \in DOMAIN fh
               THEN IF failed THEN LErr(Remove(fh, h), dh, "flush")
                    ELSE LDone(TRUE, Remove(fh, h), dh, status_resp(id, "Ok"), "flush")
               ELSE LErr(fh, dh, "none")
          [] k \in {"Lstat", "Stat"} ->
               IF failed THEN LDone(TRUE, fh, dh, io_error_resp(id, r), "metadata")
               ELSE LDone(TRUE, fh, dh, Resp("Attrs", id, "", "", <<>>), "metadata")
          [] k = "Fstat" ->
               IF h \notin DOMAIN fh THEN LErr(fh, dh, "none")
               ELSE IF failed THEN LDone(TRUE, fh, dh, io_error_resp(id, r), "metadata")
               ELSE LDone(TRUE, fh, dh, Resp("Attrs", id, "", "", <<>>), "metadata")
          [] k = "Open" ->
               LET handle == AllocHandle(DOMAIN fh, req.path)
               IN  IF failed THEN LDone(TRUE, fh, dh, io_error_resp(id, r), "open")
                   ELSE LDone(TRUE, Insert(fh, handle, FsHandle("File", res)), dh,
                              Resp("Handle", id, "", handle, <<>>), "open")
          [] k = "Read" ->
               IF h \notin DOMAIN fh THEN LErr(fh, dh, "none")
               ELSE IF failed THEN LErr(fh, dh, "read")
               ELSE IF r = "End" THEN LDone(TRUE, fh, dh, status_resp(id, "Eof"), "read")
               ELSE LDone(TRUE, fh, dh, Resp("Data", id, "", "", <<>>), "read")
          [] k = "Write" ->
               IF h \notin DOMAIN fh THEN LErr(fh, dh, "none")
               ELSE IF failed THEN LErr(fh, dh, "write_all")
               ELSE LDone(TRUE, fh, dh, status_resp(id, "Ok"), "write_all")
          [] k \in {"Fsetstat", "Fsync"} ->
               IF h \notin DOMAIN fh THEN LErr(fh, dh, "none")
               ELSE LDone(TRUE, fh, dh, io_result_resp(id, r), FsOp(k))
          [] k = "Rename" ->
               IF r = "DestExists"
               THEN LDone(TRUE, fh, dh, io_error_resp(id, "AlreadyExists"), "metadata")
               ELSE LDone(TRUE, fh, dh, io_result_resp(id, r), "rename")
          [] k = "Readlink" ->
               IF failed THEN LDone(TRUE, fh, dh, io_error_resp(id, r), "read_link")
               ELSE LDone(TRUE, fh, dh, Resp("Name", id, "", "", <<>>), "read_link")
          [] k = "Statvfs" ->
               IF failed THEN LDone(TRUE, fh, dh, io_error_resp(id, r), "statvfs")
               ELSE LDone(TRUE, fh, dh, Resp("ExtendedReply", id, "", "", <<>>), "statvfs")
          [] OTHER -> LDone(TRUE, fh, dh, io_result_resp(id, r), FsOp(k))

LegacyRes(fh, dh) == {fh[k].res : k \in DOMAIN fh} \cup {dh[k].res : k \in DOMAIN dh}

LegacyInit ==
    /\ clients = EmptyTable
    /\ conn = [c \in Conns |-> ConnRec("none", "")]
    /\ fsOpen = {}
    /\ out = NoOut
    /\ fs = DefaultFs
    /\ ConcIdle
    /\ LegacyIdle
    /\ LocalIdle
    /\ WireIdle

\* Client::data, once a whole frame is in recv_buf: from_bytes,
\* process_packet(..).await.unwrap(), to_bytes.  An Err panics the handler:
\* the Client and its maps are dropped and nothing is sent.
LegacyRequest ==
    /\ alive
    /\ lout = NoOut
    /\ \E req \in SftpClientPacket \cup {InitPacket} :
       \E r \in LegacyOutcomes(req.kind) :
           LET open == LegacyRes(file_handles, dir_handles)
               res  == IF FreeRes(open) = {} THEN 0 ELSE NewRes(open)
               e    == process_packet(file_handles, dir_handles, req, r, res)
           IN  /\ (req.kind \in OpenKinds /\ r = "Ok") => FreeRes(open) # {}
               /\ (e.op = "none" \/ (req.kind = "Close" /\ e.op = "drop")) => r = "Ok"
               /\ IF e.ok
                  THEN /\ file_handles' = e.file_handles
                       /\ dir_handles' = e.dir_handles
                       /\ alive' = TRUE
                  ELSE /\ file_handles' = EmptyTable
                       /\ dir_handles' = EmptyTable
                       /\ alive' = FALSE
               /\ lout' = Observed("legacy", req, e.resp, e.op, r)
    /\ UNCHANGED engineVars
    /\ UNCHANGED fs
    /\ UNCHANGED wireVars
    /\ UNCHANGED localVars
    /\ UNCHANGED concVars

\* session.data(channel, resp_bytes)
LegacySend ==
    /\ alive
    /\ lout # NoOut
    /\ lout' = NoOut
    /\ UNCHANGED <<file_handles, dir_handles, alive>>
    /\ UNCHANGED engineVars
    /\ UNCHANGED fs
    /\ UNCHANGED wireVars
    /\ UNCHANGED localVars
    /\ UNCHANGED concVars

LegacyNext == LegacyRequest \/ LegacySend

SpecLegacy == LegacyInit /\ [][LegacyNext]_vars

(***************************************************************************)
(* The wire codec (thrusftp-protocol/src/parse.rs and the derived           *)
(* Deserialize of SftpClientPacket): bytes are 0..255, a cursor is the      *)
(* rest of the input.  An index past the end of the input panics; an Err    *)
(* is unwrapped by the caller (thrussh.rs), which panics as well.           *)
(***************************************************************************)
Take(s, n) == SubSeq(s, 1, n)
Drop(s, n) == SubSeq(s, n + 1, Len(s))
Min(a, b)  == IF a <= b THEN a ELSE b

\* u32::serialize (to_be_bytes), u64 as its two 32-bit halves <<hi, lo>>
SerU32(n) == <<(n \div 16777216) % 256, (n \div 65536) % 256, (n \div 256) % 256, n % 256>>
SerU64(n) == SerU32(n[1]) \o SerU32(n[2])
\* String::serialize: the length, then the bytes
SerString(str) == SerU32(Len(str)) \o str

\* from_be_bytes of the first four bytes
U32Of(b) == ((b[1] * 256 + b[2]) * 256 + b[3]) * 256 + b[4]

\* String::from_utf8: the bytes the model uses are ASCII or 255, and 255
\* occurs in no valid UTF-8 string
ValidUtf8(b) == \A i \in 1..Len(b) : b[i] < 128

DeOk(v, rest) == [ok |-> TRUE, err |-> "", val |-> v, rest |-> rest]
DeFail(err)   == [ok |-> FALSE, err |-> err, val |-> 0, rest |-> <<>>]
\* the ? after a decoder's result r: an Err is returned, else Then goes on
Try(r, Then(_)) == IF ~r.ok THEN r ELSE Then(r)

DeU8(in)  == IF Len(in) < 1 THEN DeFail("short") ELSE DeOk(in[1], Drop(in, 1))
DeU32(in) == IF Len(in) < 4 THEN DeFail("short") ELSE DeOk(U32Of(in), Drop(in, 4))
DeU64(in) ==
    IF Len(in) < 8 THEN DeFail("short")
    ELSE DeOk(<<U32Of(in), U32Of(Drop(in, 4))>>, Drop(in, 8))
DeString(in) ==
    LET l == DeU32(in)
    IN  IF ~l.ok THEN l
        ELSE IF Len(l.rest) < l.val THEN DeFail("short")
        ELSE IF ~ValidUtf8(Take(l.rest, l.val)) THEN DeFail("utf8")
        ELSE DeOk(Take(l.rest, l.val), Drop(l.rest, l.val))

\* VecU8: the length, then the bytes; deserialize copies input[..len] and
\* leaves the cursor where the length ended
SerVecU8(v) == SerU32(Len(v)) \o v
DeVecU8(in) ==
    LET l == DeU32(in)
    IN  IF ~l.ok THEN l
        ELSE IF Len(l.rest) < l.val THEN DeFail("short")
        ELSE DeOk(Take(l.rest, l.val), l.rest)

\* a flag word is kept as its four big-endian bytes: bit 0x80000000 is the
\* top bit of the first byte, the bits 0x1 .. 0x20 are in the last byte
B(b) == IF b THEN 1 ELSE 0
Bit(byte, k) == (byte \div k) % 2 = 1

\* two flags sharing a bit: trunc added as 0b1000, the bit of creat
SerPflags_SharedBit(f) ==
    <<0, 0, 0, B(f.read) + 2 * B(f.write) + 4 * B(f.append) + 8 * B(f.creat)
               + 8 * B(f.trunc) + 32 * B(f.excl)>>

SerPflags(f) ==
    <<0, 0, 0, B(f.read) + 2 * B(f.write) + 4 * B(f.append) + 8 * B(f.creat)
               + 16 * B(f.trunc) + 32 * B(f.excl)>>
DePflags(in) ==
    IF Len(in) < 4 THEN DeFail("short")
    ELSE DeOk([read |-> Bit(in[4], 1), write |-> Bit(in[4], 2),
               append |-> Bit(in[4], 4), creat |-> Bit(in[4], 8),
               trunc |-> Bit(in[4], 16), excl |-> Bit(in[4], 32)], Drop(in, 4))

SerAttrsflags(f) ==
    <<128 * B(f.extended), 0, 0,
      B(f.size) + 2 * B(f.uidgid) + 4 * B(f.permissions) + 8 * B(f.acmodtime)>>
DeAttrsflags(in) ==
    IF Len(in) < 4 THEN DeFail("short")
    ELSE DeOk([size |-> Bit(in[4], 1), uidgid |-> Bit(in[4], 2),
               permissions |-> Bit(in[4], 4), acmodtime |-> Bit(in[4], 8),
               extended |-> Bit(in[1], 128)], Drop(in, 4))

\* ExtendedAttr {type, data} and Extension {name, data}: two strings
SerPair(p) == SerString(p[1]) \o SerString(p[2])
DePair(in) ==
    Try(DeString(in), LAMBDA a :
    Try(DeString(a.rest), LAMBDA b : DeOk(<<a.val, b.val>>, b.rest)))

RECURSIVE SerPairs(_)
SerPairs(q) == IF q = <<>> THEN <<>> ELSE SerPair(Head(q)) \o SerPairs(Tail(q))

\* the loop of Vec<T>::deserialize: n elements
RECURSIVE DePairs(_, _)
DePairs(n, in) ==
    IF n = 0 THEN DeOk(<<>>, in)
    ELSE Try(DePair(in), LAMBDA e :
         Try(DePairs(n - 1, e.rest), LAMBDA r : DeOk(<<e.val>> \o r.val, r.rest)))

\* Vec<T>: the number of elements, then the elements
SerVecPairs(q) == SerU32(Len(q)) \o SerPairs(q)
DeVecPairs(in) == Try(DeU32(in), LAMBDA l : DePairs(l.val, l.rest))

\* VecEos<T>: the elements and no length; read until the input ends
RECURSIVE DePairsEos(_)
DePairsEos(in) ==
    IF Len(in) = 0 THEN DeOk(<<>>, in)
    ELSE Try(DePair(in), LAMBDA e :
         Try(DePairsEos(e.rest), LAMBDA r : DeOk(<<e.val>> \o r.val, r.rest)))

\* Attrs: Option<T> is <<>> (None) or <<v>> (Some(v)); a pair is <<a, b>>
Attrs(size, uid_gid, permissions, atime_mtime, extended_attrs) ==
    [size |-> size, uid_gid |-> uid_gid, permissions |-> permissions,
     atime_mtime |-> atime_mtime, extended_attrs |-> extended_attrs]

\* presence told by the value: the size flag set only for a size other
\* than zero
FlagsOf_Sentinel(a) ==
    [size |-> a.size # <<>> /\ a.size # <<(<<0, 0>>)>>, uidgid |-> a.uid_gid # <<>>,
     permissions |-> a.permissions # <<>>, acmodtime |-> a.atime_mtime # <<>>,
     extended |-> Len(a.extended_attrs) > 0]

FlagsOf(a) ==
    [size |-> a.size # <<>>, uidgid |-> a.uid_gid # <<>>,
     permissions |-> a.permissions # <<>>, acmodtime |-> a.atime_mtime # <<>>,
     extended |-> Len(a.extended_attrs) > 0]

SerAttrs(a) ==
    LET f == FlagsOf(a)
    IN  SerAttrsflags(f)
        \o (IF a.size # <<>> THEN SerU64(a.size[1]) ELSE <<>>)
        \o (IF a.uid_gid # <<>>
            THEN SerU32(a.uid_gid[1][1]) \o SerU32(a.uid_gid[1][2]) ELSE <<>>)
        \o (IF a.permissions # <<>> THEN SerU32(a.permissions[1]) ELSE <<>>)
        \o (IF a.atime_mtime # <<>>
            THEN SerU32(a.atime_mtime[1][1]) \o SerU32(a.atime_mtime[1][2])
            ELSE <<>>)
        \o (IF Len(a.extended_attrs) > 0 THEN SerVecPairs(a.extended_attrs)
            ELSE <<>>)

DeSomeU32(present, in) ==
    IF ~present THEN DeOk(<<>>, in)
    ELSE Try(DeU32(in), LAMBDA r : DeOk(<<r.val>>, r.rest))
DeSomeU64(present, in) ==
    IF ~present THEN DeOk(<<>>, in)
    ELSE Try(DeU64(in), LAMBDA r : DeOk(<<r.val>>, r.rest))
DeSomeU32x2(present, in) ==
    IF ~present THEN DeOk(<<>>, in)
    ELSE Try(DeU32(in), LAMBDA a :
         Try(DeU32(a.rest), LAMBDA b : DeOk(<<(<<a.val, b.val>>)>>, b.rest)))
DeSomePairs(present, in) ==
    IF ~present THEN DeOk(<<>>, in) ELSE DeVecPairs(in)

DeAttrs(in) ==
    Try(DeAttrsflags(in), LAMBDA f :
    Try(DeSomeU64(f.val.size, f.rest), LAMBDA s :
    Try(DeSomeU32x2(f.val.uidgid, s.rest), LAMBDA u :
    Try(DeSomeU32(f.val.permissions, u.rest), LAMBDA p :
    Try(DeSomeU32x2(f.val.acmodtime, p.rest), LAMBDA t :
    Try(DeSomePairs(f.val.extended, t.rest), LAMBDA x :
        DeOk(Attrs(s.val, u.val, p.val, t.val, x.val), x.rest)))))))

\* Name {filename, longname, attrs} and Vec<Name>
Name(filename, longname, attrs) ==
    [filename |-> filename, longname |-> longname, attrs |-> attrs]
SerName(n) == SerString(n.filename) \o SerString(n.longname) \o SerAttrs(n.attrs)
DeName(in) ==
    Try(DeString(in), LAMBDA a :
    Try(DeString(a.rest), LAMBDA b :
    Try(DeAttrs(b.rest), LAMBDA c : DeOk(Name(a.val, b.val, c.val), c.rest))))

RECURSIVE SerNames(_)
SerNames(q) == IF q = <<>> THEN <<>> ELSE SerName(Head(q)) \o SerNames(Tail(q))
RECURSIVE DeNames(_, _)
DeNames(n, in) ==
    IF n = 0 THEN DeOk(<<>>, in)
    ELSE Try(DeName(in), LAMBDA e :
         Try(DeNames(n - 1, e.rest), LAMBDA r : DeOk(<<e.val>> \o r.val, r.rest)))
SerVecNames(q) == SerU32(Len(q)) \o SerNames(q)
DeVecNames(in) == Try(DeU32(in), LAMBDA l : DeNames(l.val, l.rest))

\* StatusCode, repr u32: 0 .. 8; another number is "unknown enum variant"
StatusCodes == <<"Ok", "Eof", "NoSuchFile", "PermissionDenied", "Failure",
                 "BadMessage", "NoConnection", "ConnectionLost", "OpUnsupported">>
StatusNum(c) == (CHOOSE i \in 1..Len(StatusCodes) : StatusCodes[i] = c) - 1
SerStatusCode(c) == SerU32(StatusNum(c))
DeStatusCode(in) ==
    LET n == DeU32(in)
    IN  IF ~n.ok THEN n
        ELSE IF n.val >= Len(StatusCodes) THEN DeFail("variant")
        ELSE DeOk(StatusCodes[n.val + 1], n.rest)

\* ExtendedRequestType: the extension names as bytes, in the order of ExtNames
ExtNameBytes ==
    <<
    \* "statvfs@openssh.com"
       <<115, 116, 97, 116, 118, 102, 115, 64, 111, 112, 101, 110, 115,
         115, 104, 46, 99, 111, 109>>,
    \* "posix-rename@openssh.com"
       <<112, 111, 115, 105, 120, 45, 114, 101, 110, 97, 109, 101, 64,
         111, 112, 101, 110, 115, 115, 104, 46, 99, 111, 109>>,
    \* "fsync@openssh.com"
       <<102, 115, 121, 110, 99, 64, 111, 112, 101, 110, 115, 115, 104,
         46, 99, 111, 109>>,
    \* "hardlink@openssh.com"
       <<104, 97, 114, 100, 108, 105, 110, 107, 64, 111, 112, 101, 110,
         115, 115, 104, 46, 99, 111, 109>> >>

\* ExtendedRequest, repr ExtendedRequestType: the name, then the variant's
\* strings (path | oldpath, newpath | handle); name is the index in ExtNames
ExtendedRequest(name, args) == [name |-> name, args |-> args]
ExtArity(i) == IF i \in {2, 4} THEN 2 ELSE 1

RECURSIVE SerStrings(_)
SerStrings(q) ==
    IF q = <<>> THEN <<>> ELSE SerString(Head(q)) \o SerStrings(Tail(q))
RECURSIVE DeStrings(_, _)
DeStrings(n, in) ==
    IF n = 0 THEN DeOk(<<>>, in)
    ELSE Try(DeString(in), LAMBDA e :
         Try(DeStrings(n - 1, e.rest), LAMBDA r : DeOk(<<e.val>> \o r.val, r.rest)))

SerExtendedRequest(x) == SerString(ExtNameBytes[x.name]) \o SerStrings(x.args)
\* a name that is none of the four: panic!("unexpected extended request")
ExtNameOf(b) ==
    IF \A i \in 1..Len(ExtNameBytes) : ExtNameBytes[i] # b THEN 0
    ELSE CHOOSE i \in 1..Len(ExtNameBytes) : ExtNameBytes[i] = b
DeExtendedRequestArgs(i, in) ==
    IF i = 0 THEN DeFail("extname")
    ELSE Try(DeStrings(ExtArity(i), in), LAMBDA a :
             DeOk(ExtendedRequest(i, a.val), a.rest))
DeExtendedRequest(in) ==
    Try(DeString(in), LAMBDA s : DeExtendedRequestArgs(ExtNameOf(s.val), s.rest))

\* the opcodes of SftpClientPacket and of SftpServerPacket
KnownOps  == {1} \cup (3..20) \cup {200}
ServerOps == {2, 101, 102, 103, 104, 105, 201}

\* the fields of each variant, in the order they are declared
FieldTypes(op) ==
    CASE op \in {1, 2} -> <<"u32", "VecEosExtension">>
      [] op = 3 -> <<"u32", "String", "Pflags", "Attrs">>
      [] op = 5 -> <<"u32", "String", "u64", "u32">>
      [] op = 6 -> <<"u32", "String", "u64", "VecU8">>
      [] op \in {9, 10, 14} -> <<"u32", "String", "Attrs">>
      [] op \in {18, 20} -> <<"u32", "String", "String">>
      [] op = 200 -> <<"u32", "ExtendedRequest">>
      [] op = 101 -> <<"u32", "StatusCode", "String", "String">>
      [] op \in {103, 201} -> <<"u32", "VecU8">>
      [] op = 104 -> <<"u32", "VecName">>
      [] op = 105 -> <<"u32", "Attrs">>
      [] OTHER -> <<"u32", "String">>

SerField(ty, v) ==
    CASE ty = "u32" -> SerU32(v) [] ty = "u64" -> SerU64(v) [] ty = "String" -> SerString(v)
      [] ty = "VecU8" -> SerVecU8(v)
      [] ty = "Pflags" -> SerPflags(v)
      [] ty = "Attrs" -> SerAttrs(v)
      [] ty = "VecName" -> SerVecNames(v)
      [] ty = "VecEosExtension" -> SerPairs(v)
      [] ty = "StatusCode" -> SerStatusCode(v)
      [] ty = "ExtendedRequest" -> SerExtendedRequest(v)
DeField(ty, in) ==
    CASE ty = "u32" -> DeU32(in) [] ty = "u64" -> DeU64(in) [] ty = "String" -> DeString(in)
      [] ty = "VecU8" -> DeVecU8(in)
      [] ty = "Pflags" -> DePflags(in)
      [] ty = "Attrs" -> DeAttrs(in)
      [] ty = "VecName" -> DeVecNames(in)
      [] ty = "VecEosExtension" -> DePairsEos(in)
      [] ty = "StatusCode" -> DeStatusCode(in)
      [] ty = "ExtendedRequest" -> DeExtendedRequest(in)

RECURSIVE SerFields(_, _)
SerFields(types, vals) ==
    IF types = <<>> THEN <<>>
    ELSE SerField(Head(types), Head(vals)) \o SerFields(Tail(types), Tail(vals))

\* the fields in declaration order, each with ?
RECURSIVE DeFields(_, _)
DeFields(types, in) ==
    IF types = <<>> THEN DeOk(<<>>, in)
    ELSE Try(DeField(Head(types), in), LAMBDA f :
         Try(DeFields(Tail(types), f.rest), LAMBDA g :
             DeOk(<<f.val>> \o g.val, g.rest)))

\* SftpClientPacket::serialize: the opcode, then the fields
serialize(op, vals) == <<op>> \o SerFields(FieldTypes(op), vals)

\* SftpClientPacket::deserialize: the opcode selects the variant ("unknown
\* enum variant" panics); what is left of the input is not looked at
DeVariant(ops, op, in) ==
    IF op \notin ops THEN DeFail("opcode")
    ELSE Try(DeFields(FieldTypes(op), in), LAMBDA f :
             DeOk(<<op>> \o f.val, f.rest))
deserialize(in) == Try(DeU8(in), LAMBDA t : DeVariant(KnownOps, t.val, t.rest))

\* SftpServerPacket::deserialize, the same derive over the response opcodes
deserialize_server(in) ==
    Try(DeU8(in), LAMBDA t : DeVariant(ServerOps, t.val, t.rest))

(***************************************************************************)
(* SpecWire: one channel of a connection and the thrussh Handler callbacks *)
(* of Client (thrusftp-server/src/thrussh.rs): shell_request,              *)
(* subsystem_request and data.  The peer sends a stream of frames, split   *)
(* into data() calls at any byte.  The callbacks of one connection run one *)
(* after the other; data is followed through its loop (din).               *)
(***************************************************************************)
MaxFrames == 2     \* frames in the stream the peer sends

SubsystemNames == {"sftp", "SFTP", "scp"}

\* a frame as the peer sends it: the declared length, then the payload
Frame(len, payload) == SerU32(len) \o payload

CloseA0 == serialize(4, <<1, <<97, 48>>>>)          \* Close{id: 1, handle: "a0"}
StatA   == serialize(17, <<2, <<97>>>>)             \* Stat{id: 2, path: "a"}
ReadA0  == serialize(5, <<1, <<97, 48>>, <<0, 0>>, 4>>)
\* a Symlink frame whose first string is "a" and whose second is "b"
SymlinkAB == serialize(20, <<1, <<97>>, <<98>>>>)

Frames ==
    { Frame(Len(CloseA0), CloseA0),                 \* well-formed
      Frame(Len(StatA), StatA),
      Frame(Len(ReadA0), ReadA0),
      Frame(Len(CloseA0) + 1, CloseA0 \o <<0>>),    \* a byte left over
      Frame(7, Take(CloseA0, 7)),                   \* cut inside the handle
      Frame(Len(CloseA0), <<4>> \o SerU32(1) \o SerU32(5) \o <<97, 48>>),
                                                    \* string longer than the frame
      Frame(0, <<>>),                               \* declared length 0
      Frame(5, <<99>> \o SerU32(1)),                \* unknown opcode
      Frame(Len(SymlinkAB), SymlinkAB),
      Frame(10, <<200>> \o SerU32(1) \o SerString(<<120>>)),  \* extension "x"
      Frame(10, <<7>> \o SerU32(1) \o SerString(<<255>>)) }  \* invalid UTF-8

RECURSIVE StreamsOf(_)
StreamsOf(n) ==
    IF n = 0 THEN {<<>>}
    ELSE {f \o st : f \in Frames, st \in StreamsOf(n - 1)}
Streams == UNION {StreamsOf(n) : n \in 1..MaxFrames}

\* which failures of the decoder are panics (an index past the end of the
\* input, "unknown enum variant", "unexpected extended request") and not an
\* Err (from_utf8)
Panics(err) == err \in {"short", "opcode", "variant", "extname"}

\* the strings of a packet as the engine's model names them
Chr(b) == CASE b = 97 -> "a" [] b = 98 -> "b" [] b = 48 -> "0" [] b = 49 -> "1"
            [] OTHER -> "?"
RECURSIVE Str(_)
Str(bytes) == IF bytes = <<>> THEN "" ELSE Chr(Head(bytes)) \o Str(Tail(bytes))

OpKind(op) ==
    CASE op = 1 -> "Init"       [] op = 3 -> "Open"      [] op = 4 -> "Close"
      [] op = 5 -> "Read"       [] op = 6 -> "Write"     [] op = 7 -> "Lstat"
      [] op = 8 -> "Fstat"      [] op = 9 -> "Setstat"   [] op = 10 -> "Fsetstat"
      [] op = 11 -> "Opendir"   [] op = 12 -> "Readdir"  [] op = 13 -> "Remove"
      [] op = 14 -> "Mkdir"     [] op = 15 -> "Rmdir"    [] op = 16 -> "Realpath"
      [] op = 17 -> "Stat"      [] op = 18 -> "Rename"   [] op = 19 -> "Readlink"
      [] op = 20 -> "Symlink"
ExtKind(i) ==
    CASE i = 1 -> "Statvfs" [] i = 2 -> "PosixRename" [] i = 3 -> "Fsync"
      [] i = 4 -> "Hardlink"

\* the decoded packet <<opcode, fields in declared order>> as the variant
\* the arms of process_internal destructure: of two path fields the first
\* declared is path, the second path2 (Rename {oldpath, newpath},
\* Symlink {linkpath, targetpath})
PacketReq(p) ==
    CASE p[1] = 1 -> Req("Init", 0, "", "", "")
      [] p[1] = 200 ->
           LET k == ExtKind(p[3].name)
               a == p[3].args
           IN  IF k = "Fsync" THEN Req(k, p[2], "", "", Str(a[1]))
               ELSE IF k = "Statvfs" THEN Req(k, p[2], Str(a[1]), "", "")
               ELSE Req(k, p[2], Str(a[1]), Str(a[2]), "")
      [] OpKind(p[1]) \in HandleKinds -> Req(OpKind(p[1]), p[2], "", "", Str(p[3]))
      [] OpKind(p[1]) \in TwoPathKinds ->
           Req(OpKind(p[1]), p[2], Str(p[3]), Str(p[4]), "")
      [] OTHER -> Req(OpKind(p[1]), p[2], Str(p[3]), "", "")

\* how the backend call of a frame ends
WireOutcomes == {"Ok", "NotFound"}

\* SftpServer::process on the session's table: the table and the open
\* resources after it, the response, the backend operation called and its
\* path arguments in the order they are passed; feasible: the outcome r is
\* one this call can have
process_internal(handles, open, req, r) ==
    IF req.kind = "Init"
    THEN [handles |-> handles, fsOpen |-> open, resp |-> VersionResp(Supported(fs)),
          op |-> "none", args |-> <<>>, feasible |-> r = "Ok"]
    ELSE LET d   == Dispatch(handles, req)
             res == IF FreeRes(open) = {} THEN 0 ELSE NewRes(open)
             e   == Complete(d, req, FsResult(fs, d.op, r), res)
         IN  IF d.op = "none"
             THEN [handles |-> d.handles, fsOpen |-> open, resp |-> d.resp,
                   op |-> "none", args |-> <<>>, feasible |-> r = "Ok"]
             ELSE [handles |-> e.handles, fsOpen |-> FsAfter(open, d, r, res),
                   resp |-> e.resp, op |-> d.op, args |-> <<req.path, req.path2>>,
                   feasible |-> /\ CanEnd(open, d.op, r)
                                /\ d.op \in OptionalOps \ fs.ops => r = "Unsupported"]

\* what became of a frame given to the decoder: the declared length, the
\* payload, the decoder's verdict, the packet handed to SftpServer::process
\* (ok), the bytes of the payload its fields took, the backend call made for
\* it, the number of responses queued before it was handed over, and the
\* bytes of the data() argument not yet read
Decoded(len, payload, p, queued, rest) ==
    [declared |-> len, payload |-> payload, ok |-> p.ok, err |-> p.err,
     panic |-> ~p.ok /\ Panics(p.err),
     packet |-> IF p.ok THEN p.val ELSE <<>>,
     consumed |-> IF p.ok THEN len - Len(p.rest) ELSE 0,
     call |-> [op |-> "none", args |-> <<>>], queued |-> queued, rest |-> rest]

\* one pass of the loop that forgets what recv_buf held: each data() call
\* starts at a frame boundary
frame_read_Restart(buf, d) ==
    LET n1   == Min(4, Len(d))
        buf1 == Take(d, n1)
        d1   == Drop(d, n1)
    IN  IF Len(buf1) < 4
        THEN [recv_buf |-> buf1, data |-> d1, complete |-> FALSE, len |-> 0]
        ELSE LET len    == U32Of(buf1)
                 needed == (len + 4) - Len(buf1)
                 n2     == Min(needed, Len(d1))
             IN  [recv_buf |-> buf1 \o Take(d1, n2), data |-> Drop(d1, n2),
                  complete |-> n2 = needed, len |-> len]

\* one pass of the while loop of Client::data up to the decoded packet:
\* the bytes of d that go to recv_buf, the frame if it is complete
frame_read(buf, d) ==
    LET n1   == IF Len(buf) < 4 THEN Min(4 - Len(buf), Len(d)) ELSE 0
        buf1 == buf \o Take(d, n1)
        d1   == Drop(d, n1)
    IN  IF Len(buf1) < 4
        THEN [recv_buf |-> buf1, data |-> d1, complete |-> FALSE, len |-> 0]
        ELSE LET len    == U32Of(buf1)
                 needed == (len + 4) - Len(buf1)
                 n2     == Min(needed, Len(d1))
             IN  [recv_buf |-> buf1 \o Take(d1, n2), data |-> Drop(d1, n2),
                  complete |-> n2 = needed, len |-> len]

\* session.data(channel, resp_buf): the response of frame k is queued
\* before the ones queued earlier
session_data_NewestFirst(q, k, resp) == <<[frame |-> k, resp |-> resp]>> \o q

\* session.data(channel, resp_buf): the response of frame k is queued
session_data(q, k, resp) == Append(q, [frame |-> k, resp |-> resp])

WireInit ==
    /\ clients = EmptyTable
    /\ conn = [c \in Conns |-> ConnRec("none", "")]
    /\ fsOpen = {}
    /\ out = NoOut
    /\ fs = DefaultFs
    /\ ConcIdle
    /\ LegacyIdle
    /\ LocalIdle
    /\ chan = "none"
    /\ reply = NoReply
    /\ sftp = FALSE
    /\ recv_buf = <<>>
    /\ wire \in Streams
    /\ log = <<>>
    /\ chanOut = <<>>
    /\ din = NoData

\* Server::new, called by thrussh for every connection it accepts: the
\* Client handler is built, and with it the connection's ClientSession; the
\* peer then opens the channel
new ==
    /\ chan = "none"
    /\ LET n == create_client_handle(clients, "client")
       IN  /\ clients' = n.clients
           /\ conn' = [conn EXCEPT ![1] = ConnRec("open", n.handle)]
    /\ chan' = "open"
    /\ UNCHANGED <<reply, sftp, recv_buf, wire, log, chanOut, din, fs>>
    /\ UNCHANGED <<fsOpen, out>>
    /\ UNCHANGED concVars
    /\ UNCHANGED legacyVars
    /\ UNCHANGED localVars

shell_request ==
    /\ chan = "open"
    /\ din.pc = "idle"
    /\ reply' = [ChanReply("shell", "", "success")
                    EXCEPT !.text = "Only SFTP allowed, bye"]
    /\ chan' = "closed"
    /\ UNCHANGED <<sftp, recv_buf, wire, log, chanOut, din, fs>>
    /\ UNCHANGED engineVars
    /\ UNCHANGED concVars
    /\ UNCHANGED legacyVars
    /\ UNCHANGED localVars

subsystem_request(name) ==
    /\ chan = "open"
    /\ din.pc = "idle"
    /\ IF name = "sftp"
       THEN /\ reply' = ChanReply("subsystem", name, "success")
            /\ sftp' = TRUE
            /\ UNCHANGED chan
       ELSE /\ reply' = ChanReply("subsystem", name, "failure")
            /\ chan' = "closed"
            /\ UNCHANGED sftp
    /\ UNCHANGED <<recv_buf, wire, log, chanOut, din, fs>>
    /\ UNCHANGED engineVars
    /\ UNCHANGED concVars
    /\ UNCHANGED legacyVars
    /\ UNCHANGED localVars

\* thrussh calls Client::data with the next n bytes of the stream
data(n) ==
    /\ chan = "open"
    /\ din.pc = "idle"
    /\ n \in 1..Len(wire)
    /\ din' = InData("loop", Take(wire, n), <<>>)
    /\ wire' = Drop(wire, n)
    /\ UNCHANGED <<chan, reply, sftp, recv_buf, log, chanOut, fs>>
    /\ UNCHANGED engineVars
    /\ UNCHANGED concVars
    /\ UNCHANGED legacyVars
    /\ UNCHANGED localVars

\* while data.len() > 0: bytes go to recv_buf; a complete frame is
\* deserialized and unwrapped, recv_buf cleared, the packet is to be processed
data_frame ==
    /\ din.pc = "loop"
    /\ Len(din.data) > 0
    /\ LET f == frame_read(recv_buf, din.data)
           p == deserialize(Drop(f.recv_buf, 4))
           e == Decoded(f.len, Drop(f.recv_buf, 4), p, Len(chanOut), Len(f.data))
       IN  IF ~f.complete
           THEN /\ recv_buf' = f.recv_buf
                /\ din' = InData("loop", f.data, <<>>)
                /\ UNCHANGED <<log, chan>>
           ELSE IF ~p.ok
           THEN /\ recv_buf' = f.recv_buf
                /\ log' = Append(log, e)
                /\ chan' = "crashed"
                /\ din' = NoData
           ELSE /\ recv_buf' = <<>>
                /\ log' = Append(log, e)
                /\ din' = InData("process", f.data, p.val)
                /\ UNCHANGED chan
    /\ UNCHANGED <<reply, sftp, wire, chanOut, fs>>
    /\ UNCHANGED engineVars
    /\ UNCHANGED concVars
    /\ UNCHANGED legacyVars
    /\ UNCHANGED localVars

\* self.server.process(&self.handle, packet).await, the response serialized
\* and given to session.data; r: how the backend call ends
data_process(r) ==
    /\ din.pc = "process"
    /\ LET h == conn[1].handle
           e == process_internal(clients[h], fsOpen, PacketReq(din.packet), r)
       IN  /\ e.feasible
           /\ clients' = [clients EXCEPT ![h] = e.handles]
           /\ fsOpen' = e.fsOpen
           /\ log' = [log EXCEPT ![Len(log)].call = [op |-> e.op, args |-> e.args]]
           /\ chanOut' = session_data(chanOut, Len(log), e.resp)
    /\ din' = InData("loop", din.data, <<>>)
    /\ UNCHANGED <<chan, reply, sftp, recv_buf, wire, fs>>
    /\ UNCHANGED <<conn, out>>
    /\ UNCHANGED concVars
    /\ UNCHANGED legacyVars
    /\ UNCHANGED localVars

\* data is empty: Ok((self, session))
data_return ==
    /\ din.pc = "loop"
    /\ Len(din.data) = 0
    /\ din' = NoData
    /\ UNCHANGED <<chan, reply, sftp, recv_buf, wire, log, chanOut, fs>>
    /\ UNCHANGED engineVars
    /\ UNCHANGED concVars
    /\ UNCHANGED legacyVars
    /\ UNCHANGED localVars

WireNext ==
    \/ new
    \/ shell_request
    \/ \E name \in SubsystemNames : subsystem_request(name)
    \/ \E n \in 1..Len(wire) : data(n)
    \/ data_frame
    \/ \E r \in WireOutcomes : data_process(r)
    \/ data_return

SpecWire == WireInit /\ [][WireNext]_vars

(***************************************************************************)
(* SpecLocalFs: the local backend (thrusftp/src/fs.rs) under the engine's  *)
(* Read and Readdir arms.  The file holds the bytes 1..FileSize, a fresh    *)
(* buffer holds zeros; the operating system chooses how many bytes each     *)
(* read returns.                                                            *)
(***************************************************************************)
FileSize == 4      \* bytes in the file
MaxLen   == 4      \* largest len of a Read request
DirSize  == 2      \* largest number of entries in the directory

FileBytes == [i \in 1..FileSize |-> i]
Zeros(n)  == [i \in 1..n |-> 0]

\* the io::Error kinds a failing system call is modelled with
IoErrKinds == {"PermissionDenied", "OtherIo"}

\* SftpServerPacket::Data / Name / Status as the arms build them
DataResp(d)   == [type |-> "Data", code |-> "", data |-> d, names |-> <<>>]
NameResp(n)   == [type |-> "Name", code |-> "", data |-> <<>>, names |-> n]
StatusOf(err) == [type |-> "Status", code |-> ErrorCode(err), data |-> <<>>,
                  names |-> <<>>]

\* handle.seek(SeekFrom::Start(offset)); vec![0u8; len]
read_begin(offset, len) ==
    /\ rd.stage \in {"idle", "done"}
    /\ rd' = [stage |-> "loop", offset |-> offset, len |-> len,
              data |-> Zeros(len), read_len |-> 0, total_read_len |-> 0,
              pos |-> offset, chunks |-> 0, result |-> <<>>]
    /\ UNCHANGED <<dir, cx>>
    /\ UNCHANGED engineVars
    /\ UNCHANGED concVars
    /\ UNCHANGED legacyVars
    /\ UNCHANGED wireVars
    /\ UNCHANGED fs

\* what the operating system may return for a read into a slice of cap
\* bytes at file position pos: 0 at the end of the file (or into an empty
\* slice), else any number of bytes up to what is there and fits
ReadSizes(cap, pos) ==
    IF cap = 0 \/ pos >= FileSize THEN {0}
    ELSE 1..Min(cap, FileSize - pos)

\* one pass of the loop in which handle.read(&mut data[read_len..]) returns
\* Ok(n): the n bytes go to data[read_len .. read_len + n]
read_chunk(r, n) ==
    [r EXCEPT
       !.data = [i \in 1..Len(r.data) |->
                    IF r.read_len < i /\ i <= r.read_len + n
                    THEN FileBytes[r.pos + (i - r.read_len)]
                    ELSE r.data[i]],
       !.read_len = n,
       !.total_read_len = r.total_read_len + n,
       !.pos = r.pos + n,
       !.chunks = r.chunks + 1,
       !.stage = IF n = 0 THEN "after" ELSE "loop"]

read_step ==
    /\ rd.stage = "loop"
    /\ rd.total_read_len < rd.len
    /\ \E n \in ReadSizes(rd.len - rd.read_len, rd.pos) : rd' = read_chunk(rd, n)
    /\ UNCHANGED <<dir, cx>>
    /\ UNCHANGED engineVars
    /\ UNCHANGED concVars
    /\ UNCHANGED legacyVars
    /\ UNCHANGED wireVars
    /\ UNCHANGED fs

\* if total_read_len >= len { break; }
read_break ==
    /\ rd.stage = "loop"
    /\ rd.total_read_len >= rd.len
    /\ rd' = [rd EXCEPT !.stage = "after"]
    /\ UNCHANGED <<dir, cx>>
    /\ UNCHANGED engineVars
    /\ UNCHANGED concVars
    /\ UNCHANGED legacyVars
    /\ UNCHANGED wireVars
    /\ UNCHANGED fs

\* handle.read(..).await? fails: read returns the error, the Read arm
\* answers error_resp
read_fail(e) ==
    /\ rd.stage = "loop"
    /\ rd.total_read_len < rd.len
    /\ rd' = [rd EXCEPT !.stage = "done", !.result = StatusOf(e)]
    /\ UNCHANGED <<dir, cx>>
    /\ UNCHANGED engineVars
    /\ UNCHANGED concVars
    /\ UNCHANGED legacyVars
    /\ UNCHANGED wireVars
    /\ UNCHANGED fs

\* after the loop: Err(UnexpectedEof) when nothing was read, else
\* data.truncate(total_read_len); the Read arm answers Data or error_resp
read_end ==
    /\ rd.stage = "after"
    /\ rd' = [rd EXCEPT
                !.stage = "done",
                !.result = IF rd.total_read_len = 0 THEN StatusOf("UnexpectedEof")
                           ELSE DataResp(Take(rd.data,
                                    Min(rd.total_read_len, Len(rd.data))))]
    /\ UNCHANGED <<dir, cx>>
    /\ UNCHANGED engineVars
    /\ UNCHANGED concVars
    /\ UNCHANGED legacyVars
    /\ UNCHANGED wireVars
    /\ UNCHANGED fs

\* the directory as opendir found it
DirEntries == [i \in 1..DirSize |-> Format("f", i)]
MaxReaddirs == DirSize + 2

\* readdir returning the entry without moving the iterator on
LocalFs_readdir_NoAdvance(d, o, e) ==
    IF (o = "NextEntryErr") \/ (o = "MetadataErr")
    THEN [d EXCEPT !.resps = Append(@, StatusOf(e)), !.failed = TRUE]
    ELSE IF d.next < Len(d.entries)
    THEN [d EXCEPT !.resps = Append(@, NameResp(<<d.entries[d.next + 1]>>))]
    ELSE [d EXCEPT !.resps = Append(@, StatusOf("UnexpectedEof"))]

\* LocalFs::readdir under the Readdir arm.  o: "Ok", or which of the two
\* calls fails (next_entry, or metadata of the entry it returned) with the
\* error kind e
LocalFs_readdir(d, o, e) ==
    CASE o = "NextEntryErr" ->
           [d EXCEPT !.resps = Append(@, StatusOf(e)), !.failed = TRUE]
      [] o = "MetadataErr" ->
           [d EXCEPT !.next = @ + 1, !.resps = Append(@, StatusOf(e)),
                     !.failed = TRUE]
      [] OTHER ->
           IF d.next < Len(d.entries)
           THEN [d EXCEPT !.next = @ + 1,
                          !.resps = Append(@, NameResp(<<d.entries[d.next + 1]>>))]
           ELSE [d EXCEPT !.resps = Append(@, StatusOf("UnexpectedEof"))]

readdir(o, e) ==
    /\ Len(dir.resps) < MaxReaddirs
    /\ o = "MetadataErr" => dir.next < Len(dir.entries)
    /\ dir' = LocalFs_readdir(dir, o, e)
    /\ UNCHANGED <<rd, cx>>
    /\ UNCHANGED engineVars
    /\ UNCHANGED concVars
    /\ UNCHANGED legacyVars
    /\ UNCHANGED wireVars
    /\ UNCHANGED fs

LocalInit ==
    /\ clients = EmptyTable
    /\ conn = [c \in Conns |-> ConnRec("none", "")]
    /\ fsOpen = {}
    /\ out = NoOut
    /\ fs = DefaultFs
    /\ ConcIdle
    /\ LegacyIdle
    /\ WireIdle
    /\ rd = NoRead
    /\ dir \in {[NoDir EXCEPT !.entries = Take(DirEntries, n)] : n \in 0..DirSize}
    /\ cx = NoCodec

LocalNext ==
    \/ \E offset \in 0..(FileSize + 1), len \in 0..MaxLen :
           read_begin(offset, len)
    \/ read_step
    \/ read_break
    \/ \E e \in IoErrKinds : read_fail(e)
    \/ read_end
    \/ \E o \in {"Ok", "NextEntryErr", "MetadataErr"}, e \in IoErrKinds :
           readdir(o, e)

SpecLocalFs == LocalInit /\ [][LocalNext]_vars

(***************************************************************************)
(* SpecCodec: one value is serialized, then the bytes are deserialized.    *)
(* Packets are <<opcode, field, ...>> in the order of declaration.         *)
(***************************************************************************)
MaxStr == 1        \* longest string and blob of a packet

RECURSIVE StrsOf(_)
StrsOf(n) == IF n = 0 THEN {<<>>} ELSE StrsOf(n - 1) \cup {[i \in 1..n |-> 97]}
Strs  == StrsOf(MaxStr)
Blobs == {<<>>} \cup {[i \in 1..n |-> 0] : n \in 1..MaxStr}
U32s  == {0, 1}
U64s  == {<<0, 0>>, <<0, 1>>, <<1, 0>>}

AllPflags ==
    [read : BOOLEAN, write : BOOLEAN, append : BOOLEAN, creat : BOOLEAN,
     trunc : BOOLEAN, excl : BOOLEAN]
AllAttrsflags ==
    [size : BOOLEAN, uidgid : BOOLEAN, permissions : BOOLEAN,
     acmodtime : BOOLEAN, extended : BOOLEAN]
SomePflags == {f \in AllPflags : (f.read = f.write /\ f.append = f.creat
                                  /\ f.creat = f.trunc /\ f.trunc = f.excl)}

\* every subset of the optional fields, a present field holding zero or not
AllAttrs ==
    {Attrs(s, u, p, t, x) :
        s \in {<<>>, <<(<<0, 0>>)>>, <<(<<0, 1>>)>>},
        u \in {<<>>, <<(<<0, 0>>)>>, <<(<<1, 2>>)>>},
        p \in {<<>>, <<0>>, <<420>>},
        t \in {<<>>, <<(<<0, 0>>)>>},
        x \in {<<>>, <<(<<(<<97>>), <<>>>>)>>}}
SomeAttrs == {a \in AllAttrs : a.uid_gid = <<>> /\ a.atime_mtime = <<>>}

Extensions0 == {<<>>, <<(<<ExtNameBytes[1], <<50>>>>)>>,
                <<(<<ExtNameBytes[1], <<50>>>>), <<ExtNameBytes[3], <<49>>>>>>}
AllExtendedRequests ==
    {ExtendedRequest(i, a) : i \in {1, 3}, a \in {<<st>> : st \in Strs}}
    \cup {ExtendedRequest(i, a) : i \in {2, 4},
                                 a \in {<<st, <<98>>>> : st \in Strs}}
AllNames ==
    {<<>>} \cup {<<Name(f, f, a)>> : f \in Strs, a \in SomeAttrs}
    \cup {<<Name(<<97>>, <<>>, a), Name(<<>>, <<97>>, Attrs(<<>>, <<>>, <<>>, <<>>, <<>>))>> :
              a \in SomeAttrs}

ClientPackets ==
         {<<1, v, e>> : v \in {3}, e \in Extensions0}
    \cup {<<3, 1, f, pf, a>> : f \in Strs, pf \in SomePflags, a \in AllAttrs}
    \cup {<<op, i, st>> : op \in {4, 7, 8, 11, 12, 13, 15, 16, 17, 19},
                          i \in U32s, st \in Strs}
    \cup {<<5, 1, h, o, l>> : h \in Strs, o \in U64s, l \in U32s}
    \cup {<<6, 1, h, o, d>> : h \in Strs, o \in U64s, d \in Blobs}
    \cup {<<op, 1, st, a>> : op \in {9, 10, 14}, st \in Strs, a \in AllAttrs}
    \cup {<<op, 1, st, <<98>>>> : op \in {18, 20}, st \in Strs}
    \cup {<<200, 1, x>> : x \in AllExtendedRequests}

ServerPackets ==
         {<<2, v, e>> : v \in {3}, e \in Extensions0}
    \cup {<<101, i, StatusCodes[c], m, <<101, 110>>>> :
              i \in U32s, c \in 1..Len(StatusCodes), m \in Strs}
    \cup {<<102, i, h>> : i \in U32s, h \in Strs}
    \cup {<<op, i, d>> : op \in {103, 201}, i \in U32s, d \in Blobs}
    \cup {<<104, 1, n>> : n \in AllNames}
    \cup {<<105, 1, a>> : a \in AllAttrs}

CodecValue(k, v) == [NoCodec EXCEPT !.stage = "value", !.kind = k, !.val = v]

CodecInit ==
    /\ clients = EmptyTable
    /\ conn = [c \in Conns |-> ConnRec("none", "")]
    /\ fsOpen = {}
    /\ out = NoOut
    /\ fs = DefaultFs
    /\ ConcIdle
    /\ LegacyIdle
    /\ WireIdle
    /\ rd = NoRead
    /\ dir = NoDir
    /\ cx \in {CodecValue("client", v) : v \in ClientPackets}
         \cup {CodecValue("server", v) : v \in ServerPackets}
         \cup {CodecValue("Pflags", v) : v \in AllPflags}
         \cup {CodecValue("Attrsflags", v) : v \in AllAttrsflags}

\* Serialize::serialize of the value
encode ==
    /\ cx.stage = "value"
    /\ cx' = [cx EXCEPT
                !.stage = "encoded",
                !.bytes = CASE cx.kind = "Pflags" -> SerPflags(cx.val)
                            [] cx.kind = "Attrsflags" -> SerAttrsflags(cx.val)
                            [] OTHER -> serialize(Head(cx.val), Tail(cx.val))]
    /\ UNCHANGED <<rd, dir>>
    /\ UNCHANGED engineVars
    /\ UNCHANGED concVars
    /\ UNCHANGED legacyVars
    /\ UNCHANGED wireVars
    /\ UNCHANGED fs

\* Deserialize::deserialize of those bytes
decode ==
    /\ cx.stage = "encoded"
    /\ cx' = [cx EXCEPT
                !.stage = "decoded",
                !.back = CASE cx.kind = "Pflags" -> DePflags(cx.bytes)
                           [] cx.kind = "Attrsflags" -> DeAttrsflags(cx.bytes)
                           [] cx.kind = "client" -> deserialize(cx.bytes)
                           [] OTHER -> deserialize_server(cx.bytes)]
    /\ UNCHANGED <<rd, dir>>
    /\ UNCHANGED engineVars
    /\ UNCHANGED concVars
    /\ UNCHANGED legacyVars
    /\ UNCHANGED wireVars
    /\ UNCHANGED fs

CodecNext == encode \/ decode

SpecCodec == CodecInit /\ [][CodecNext]_vars

(***************************************************************************)
(* Properties of the engine (Spec)                                         *)
(***************************************************************************)
\* a step that processes one request: out goes from empty to that request
Processed == out = NoOut /\ out' # NoOut

WantedKind(k) == IF k = "Readdir" THEN "Dir" ELSE "File"

\* C1: a Read, Write, Fstat, Fsetstat, Fsync or Readdir whose handle is not
\* a key of the caller's table, or names an entry of the other kind, is
\* answered Status(BadMessage) with the request's id, invokes no backend
\* operation and changes neither the tables nor the backend's resources.
C1_BadHandleNoBackend ==
    [][ ( /\ Processed
          /\ out'.req.kind \in FileKinds \cup {"Readdir"}
          /\ Get(clients[out'.cli], out'.req.handle).kind # WantedKind(out'.req.kind) )
        => ( /\ out'.resp.type = "Status"
             /\ out'.resp.code = "BadMessage"
             /\ out'.resp.id = out'.req.id
             /\ out'.op = "none"
             /\ fsOpen' = fsOpen
             /\ clients' = clients ) ]_vars

\* C1 witness: a Read naming a directory handle has been answered BadMessage
C1_Witness ==
    /\ out.req.kind = "Read"
    /\ Get(clients[out.cli], out.req.handle).kind = "Dir"
    /\ out.resp.code = "BadMessage"

\* C3: a Close leaves its handle absent from the table; a request naming a
\* handle that is absent (Read, Write, Fstat, Fsetstat, Fsync, Readdir or
\* Close) is answered Status(BadMessage) and changes nothing; and a key
\* enters a table only as the handle of a Handle response to Open/Opendir.
C3_ClosedHandleGone ==
    [][ Processed =>
        LET h  == out'.cli
            rq == out'.req
        IN  /\ rq.kind = "Close" => rq.handle \notin DOMAIN clients'[h]
            /\ (rq.kind \in HandleKinds /\ rq.handle \notin DOMAIN clients[h])
               => ( /\ out'.resp.type = "Status"
                    /\ out'.resp.code = "BadMessage"
                    /\ out'.op = "none"
                    /\ clients' = clients )
            /\ \A k \in DOMAIN clients'[h] \ DOMAIN clients[h] :
                   /\ rq.kind \in OpenKinds
                   /\ out'.resp.type = "Handle"
                   /\ out'.resp.handle = k ]_vars

\* C3 witness: a Close has handed an entry to the backend and the handle is
\* no longer a key
C3_Witness ==
    /\ out.req.kind = "Close"
    /\ out.op = "close"
    /\ out.r = "Ok"
    /\ out.req.handle \notin DOMAIN clients[out.cli]

\* C8: when the backend's close fails, the Close is answered with a Status
\* that is not Ok and the handle is no longer in the table.
C8_CloseFailureStillRemoves ==
    (out.req.kind = "Close" /\ out.op = "close" /\ out.r \in ErrKinds)
    => ( /\ out.req.handle \notin DOMAIN clients[out.cli]
         /\ out.resp.type = "Status"
         /\ out.resp.code \notin {"Ok"}
         /\ out.resp.id = out.req.id )

\* C8 witness: a backend close has failed with permission-denied
C8_Witness ==
    /\ out.req.kind = "Close"
    /\ out.op = "close"
    /\ out.r = "PermissionDenied"
    /\ out.resp.code = "PermissionDenied"

\* every entry of every table holds a resource that is open in the backend,
\* and no resource is held twice
TablesHoldOpenResources ==
    \A h \in DOMAIN clients : \A k \in DOMAIN clients[h] :
        /\ clients[h][k].res \in fsOpen
        /\ \A h2 \in DOMAIN clients : \A k2 \in DOMAIN clients[h2] :
               clients[h2][k2].res = clients[h][k].res => (h2 = h /\ k2 = k)

\* C9: an Open/Opendir whose backend call fails is answered with a Status
\* and leaves every table as it was; a table gains a key only in a step whose
\* backend open/opendir succeeded and whose response is Handle; and in every
\* state every table entry holds an open backend resource.
C9_InsertOnlyOnSuccess ==
    /\ [] TablesHoldOpenResources
    /\ [][ (Processed /\ out'.req.kind \in OpenKinds) =>
           /\ out'.r # "Ok" => ( /\ clients' = clients
                                 /\ fsOpen' = fsOpen
                                 /\ out'.resp.type = "Status"
                                 /\ out'.resp.code # "Ok" )
           /\ out'.r = "Ok" => ( /\ out'.resp.type = "Handle"
                                 /\ DOMAIN clients'[out'.cli] =
                                      DOMAIN clients[out'.cli] \cup {out'.resp.handle}
                                 /\ clients'[out'.cli][out'.resp.handle].res
                                      \in fsOpen' \ fsOpen ) ]_vars

\* C9 witness: an Open has failed while the client holds another handle
C9_Witness ==
    /\ out.req.kind = "Open"
    /\ out.r = "NotFound"
    /\ out.resp.code = "NoSuchFile"
    /\ DOMAIN clients[out.cli] # {}

\* C10: the handle of a Handle response is the requested name followed by the
\* smallest n >= 0, in decimal, for which name+n was not a key of the table
\* when the request arrived.
C10_SmallestFreeSuffix ==
    [][ (Processed /\ out'.req.kind \in OpenKinds /\ out'.resp.type = "Handle") =>
        LET keys == DOMAIN clients[out'.cli]
            name == out'.req.path
        IN  \E n \in 0..Cardinality(keys) :
                /\ out'.resp.handle = Format(name, n)
                /\ Format(name, n) \notin keys
                /\ \A m \in 0..(n - 1) : Format(name, m) \in keys ]_vars

\* C10 witness: "a0", freed by a Close, is handed out again while "a1" is open
C10_Witness ==
    /\ out.req.kind = "Open"
    /\ out.req.path = "a"
    /\ out.resp.handle = "a0"
    /\ DOMAIN clients[out.cli] = {"a0", "a1"}

\* C7 (as claimed): once a connection has ended its session is no longer in
\* the registry and no resource of its handle table is left open.
C7_SessionReleasedOnDisconnect ==
    \A c \in Conns :
        conn[c].state = "closed" =>
            /\ conn[c].handle \notin DOMAIN clients
            /\ \A h \in DOMAIN clients : h = conn[c].handle =>
                   \A k \in DOMAIN clients[h] : clients[h][k].res \notin fsOpen

\* C34: a request processed for a client changes no other client's table
\* and is resolved in the client's own table only: a handle string the
\* client does not hold is answered Status(BadMessage) without a backend
\* call, whoever else holds that string, and a string it does hold names its
\* own resource (a Close releases that one and no other).
C34_TablesIsolated ==
    [][ Processed =>
          LET h   == out'.cli
              req == out'.req
          IN  /\ DOMAIN clients' = DOMAIN clients
              /\ \A g \in DOMAIN clients \ {h} : clients'[g] = clients[g]
              /\ (req.kind \in HandleKinds /\ req.handle \notin DOMAIN clients[h])
                 => /\ out'.resp = status_resp(req.id, "BadMessage")
                    /\ out'.op = "none"
                    /\ fsOpen' = fsOpen
              /\ (req.kind = "Close" /\ req.handle \in DOMAIN clients[h])
                 => fsOpen' = fsOpen \ {clients[h][req.handle].res} ]_vars

\* a client named a handle string that only another client holds
C34_Witness ==
    /\ out # NoOut
    /\ out.req.kind \in HandleKinds
    /\ out.resp.code = "BadMessage"
    /\ out.req.handle \notin DOMAIN clients[out.cli]
    /\ \E g \in DOMAIN clients \ {out.cli} : out.req.handle \in DOMAIN clients[g]

LegacyProcessed == lout = NoOut /\ lout' # NoOut

\* C2 (as claimed): a Handle response to Open or Opendir never carries a
\* string that is, as the request arrives, a key of the client's handles,
\* whether that entry is a file or a directory.
C2_HandleNeverInUse ==
    [][ (LegacyProcessed /\ lout'.resp.type = "Handle") =>
        lout'.resp.handle \notin DOMAIN file_handles \cup DOMAIN dir_handles ]_vars

\* C4 (as claimed): every request that has been received has a response.
C4_EveryRequestAnswered ==
    lout.req.kind # "None" => lout.resp.type # "None"

(***************************************************************************)
(* Properties of the locking (SpecConc)                                    *)
(***************************************************************************)
\* C5: two tasks are never inside process_internal for the same session at
\* once; the handle chosen by an Open/Opendir before its backend call is
\* still free while that call is suspended; and while a task is inside, no
\* step of another task changes that session's table.
C5_SessionSerialised ==
    /\ [] ( /\ \A t \in Tasks : \A u \in Tasks \ {t} :
                  (InSession(t) /\ InSession(u)) => tcli[t] # tcli[u]
            /\ \A t \in Tasks :
                  (pc[t] = "backend" /\ tcall[t].req.kind \in OpenKinds)
                  => tcall[t].resp.handle \notin DOMAIN clients[tcli[t]] )
    /\ [][ \A t \in Tasks :
             (InSession(t) /\ pc'[t] = pc[t])
             => clients'[tcli[t]] = clients[tcli[t]] ]_vars

\* C5 witness: a second request for a session waits for its lock while the
\* first is suspended in the backend's open
C5_Witness ==
    \E t \in Tasks : \E u \in Tasks \ {t} :
        /\ pc[t] = "backend"
        /\ tcall[t].req.kind = "Open"
        /\ pc[u] = "lock"
        /\ tcli[u] = tcli[t]

\* C6: while a request of session A is suspended in a backend call, A holds
\* no registry lock, and a request of another session B can take each of its
\* steps: the lookup, B's session lock (unless a third task holds it), the
\* dispatch and the return.
C6_OtherSessionsProceed ==
    \A a \in Tasks : \A b \in Tasks \ {a} :
        (pc[a] = "backend" /\ tcli[b] # tcli[a]) =>
            /\ a \notin regReaders
            /\ (pc[b] = "idle" /\ regWriter = 0) =>
                   \A c \in Conns : conn[c].state = "open"
                                    => ENABLED Call(b, conn[c].handle)
            /\ pc[b] = "registry" => ENABLED Lookup(b)
            /\ ( /\ pc[b] = "lock"
                 /\ \A c \in Tasks \ {a, b} : ~(InSession(c) /\ tcli[c] = tcli[b]) )
               => ENABLED Acquire(b)
            /\ pc[b] = "held" => ENABLED (\E req \in ConcPackets : Enter(b, req))
            /\ pc[b] = "backend" => ENABLED (\E r \in ConcOutcomes : Return(b, r))

\* C6 witness: requests of two sessions are suspended in backend calls at once
C6_Witness ==
    \E a \in Tasks : \E b \in Tasks \ {a} :
        /\ pc[a] = "backend"
        /\ pc[b] = "backend"
        /\ tcli[a] # tcli[b]

\* C32: the registry's shared lock is held by a task only between its
\* clients.read() and the lookup, never while it waits for or holds a session
\* lock or is suspended in the backend; the exclusive lock is held only by a
\* create_client_handle between its clients.write() and its insert; so with
\* requests suspended in the backend a connection setup finds the registry
\* free of them.
C32_RegistryLockNotAcrossBackend ==
    /\ regReaders = {t \in Tasks : pc[t] = "registry"}
    /\ \A c \in Conns : regWriter = c <=> conn[c].state = "creating"
    /\ (regWriter # 0 => regReaders = {})
    /\ \A c \in Conns :
         (conn[c].state = "none" /\ regWriter = 0
          /\ \A t \in Tasks : pc[t] \in {"idle", "lock", "held", "backend"})
         => ENABLED CreateBegin(c)
    /\ \A c \in Conns : conn[c].state = "creating" => ENABLED CreateEnd(c)

\* a connection setup holds the exclusive lock while a request of another
\* client is suspended in the backend
C32_Witness ==
    \E t \in Tasks : \E c \in Conns :
        /\ pc[t] = "backend"
        /\ conn[c].state = "creating"
        /\ regWriter = c

\* the session locks task t holds
HeldBy(t) == {h \in DOMAIN sessLock : sessLock[h] = t}

\* C33: a task that waits for a lock holds no other lock (the registry's
\* guard is gone before the session lock is asked for, and the registry is
\* never asked for by a task that holds a session lock), and every call of
\* process and of create_client_handle returns.
C33_NoHoldAndWaitAllReturn ==
    /\ [] ( \A t \in Tasks :
              /\ pc[t] = "lock" => (t \notin regReaders /\ HeldBy(t) = {})
              /\ pc[t] \in {"idle", "registry"} => HeldBy(t) = {}
              /\ pc[t] \in {"held", "backend"} => (t \notin regReaders
                                                  /\ HeldBy(t) = {tcli[t]}) )
    /\ \A t \in Tasks : (pc[t] # "idle") ~> (pc[t] = "idle")
    /\ \A c \in Conns : (conn[c].state = "creating") ~> (conn[c].state = "open")

\* a task waits for the lock of a session whose holder is suspended in the
\* backend while a connection setup holds the registry
C33_Witness ==
    \E t \in Tasks : \E u \in Tasks \ {t} :
        /\ pc[t] = "backend"
        /\ pc[u] = "lock"
        /\ tcli[u] = tcli[t]
        /\ regWriter # 0

\* C35: create_client_handle returns "client" followed by the smallest
\* number that is not yet a key of the registry and inserts an empty session
\* under it in one step: the key was free, every other entry stays as it
\* was, and the keys of two connections always differ.
C35_CreateClientHandleAtomic ==
    /\ [] ( \A c \in Conns : \A d \in Conns \ {c} :
              (conn[c].state = "open" /\ conn[d].state = "open")
              => conn[c].handle # conn[d].handle )
    /\ [][ \A c \in Conns :
             (conn[c].state = "creating" /\ conn'[c].state = "open")
             => LET k == conn'[c].handle
                IN  /\ k \notin DOMAIN clients
                    /\ \E n \in 0..NumConns :
                         /\ k = Format("client", n)
                         /\ \A m \in 0..(n - 1) :
                              Format("client", m) \in DOMAIN clients
                    /\ DOMAIN clients' = DOMAIN clients \cup {k}
                    /\ clients'[k] = EmptyTable
                    /\ \A g \in DOMAIN clients : clients'[g] = clients[g] ]_vars

\* a second session was registered while the first one's table held a handle
C35_Witness ==
    \E c \in Conns : \E d \in Conns \ {c} :
        /\ conn[c].state = "open"
        /\ conn[d].state = "open"
        /\ clients[conn[c].handle] # EmptyTable
        /\ clients[conn[d].handle] = EmptyTable

(***************************************************************************)
(* Responses of the engine (Spec)                                          *)
(***************************************************************************)
\* C11: the response to every request other than Init is a packet carrying
\* the id of that request, whether it is a success packet, a Status built
\* from a backend failure or the Status(BadMessage) of a handle error.
C11_ResponseEchoesId ==
    out.req.kind \notin {"None", "Init"}
    => ( /\ out.resp.type \in {"Status", "Handle", "Data", "Name", "Attrs",
                               "ExtendedReply"}
         /\ out.resp.id = out.req.id )

\* C11 witness: a request with id 2 naming an unknown handle has been
\* answered Status(BadMessage) with id 2
C11_Witness ==
    /\ out.req.kind \in HandleKinds
    /\ out.req.id = 2
    /\ out.op = "none"
    /\ out.resp.code = "BadMessage"
    /\ out.resp.id = 2

\* C14: the response to Init is Version with version 3, and its extension
\* list holds, once each and in the order statvfs, posix-rename, fsync,
\* hardlink, exactly the extensions whose predicate returns true, statvfs
\* with data "2" and the others with data "1".
C14_VersionAdvertisesSupported ==
    out.req.kind = "Init"
    => ( /\ out.resp.type = "Version"
         /\ out.resp.version = 3
         /\ Len(out.resp.ext) = Cardinality(Supported(fs))
         /\ \A i \in 1..Len(ExtNames) :
               LET sent == {j \in 1..Len(out.resp.ext) :
                               out.resp.ext[j].name = ExtNames[i]}
               IN  IF i \in Supported(fs)
                   THEN /\ Cardinality(sent) = 1
                        /\ \A j \in sent :
                               out.resp.ext[j].data = (IF i = 1 THEN "2" ELSE "1")
                   ELSE sent = {}
         /\ \A j \in 1..Len(out.resp.ext) : \A k \in 1..Len(out.resp.ext) :
               (j < k) =>
                   \E a \in 1..Len(ExtNames) : \E b \in 1..Len(ExtNames) :
                       /\ a < b
                       /\ out.resp.ext[j].name = ExtNames[a]
                       /\ out.resp.ext[k].name = ExtNames[b] )

\* C14 witness: Init answered by a backend supporting statvfs and fsync only
C14_Witness ==
    /\ out.req.kind = "Init"
    /\ Supported(fs) = {1, 3}
    /\ Len(out.resp.ext) = 2
    /\ out.resp.ext[1].name = "statvfs@openssh.com"
    /\ out.resp.ext[2].name = "fsync@openssh.com"

\* C15: with a backend that does not override an optional operation, the
\* predicate of that operation is false (Init does not advertise it) and an
\* Extended request that reaches the operation (for fsync: with a file
\* handle) is answered Status(OpUnsupported) with the request's id.
C15_UnsupportedOptionalOp ==
    /\ \A i \in 1..Len(ExtOps) :
           (ExtOps[i] \notin fs.ops /\ out.req.kind = "Init")
           => \A j \in 1..Len(out.resp.ext) : out.resp.ext[j].name # ExtNames[i]
    /\ (out.op \in OptionalOps \ fs.ops)
       => ( /\ out.resp.type = "Status"
            /\ out.resp.code = "OpUnsupported"
            /\ out.resp.id = out.req.id )

\* C15 witness: Fsync through a valid file handle on a backend without fsync
C15_Witness ==
    /\ out.req.kind = "Fsync"
    /\ out.op = "fsync"
    /\ "fsync" \notin fs.ops
    /\ out.resp.code = "OpUnsupported"

\* C13 (as claimed): a Rename whose destination exists is answered
\* Status(Failure) and the backend's rename is not invoked for it.
C13_RenamePreCheck ==
    (out.req.kind = "Rename" /\ out.r = "DestExists")
    => ( /\ out.resp.type = "Status"
         /\ out.resp.code = "Failure"
         /\ out.op # "rename" )

(***************************************************************************)
(* Errors in the first revision (SpecLegacy)                               *)
(***************************************************************************)
\* C12 (as claimed): a failure is turned into a Status whose code is
\* NoSuchFile for not-found, Eof for end-of-data, PermissionDenied for
\* permission-denied, OpUnsupported for unsupported, BadMessage for
\* invalid-input and invalid-data, and Failure for every other kind.
C12_FailureKindToStatus ==
    (lout.r \in ErrKinds /\ lout.resp.type = "Status")
    => lout.resp.code =
         ( CASE lout.r = "NotFound"         -> "NoSuchFile"
             [] lout.r = "UnexpectedEof"    -> "Eof"
             [] lout.r = "PermissionDenied" -> "PermissionDenied"
             [] lout.r = "Unsupported"      -> "OpUnsupported"
             [] lout.r \in {"InvalidInput", "InvalidData"} -> "BadMessage"
             [] OTHER                       -> "Failure" )

\* C17 (as claimed): a request whose handle is missing or of the wrong kind
\* is answered Status(BadMessage), the connection stays open and both handle
\* maps are as before, so that a Read on a directory handle does not stop a
\* following Readdir on it.
C17_BadHandleRecoverable ==
    [][ ( /\ LegacyProcessed
          /\ \/ /\ lout'.req.kind \in FileKinds
                /\ lout'.req.handle \notin DOMAIN file_handles
             \/ /\ lout'.req.kind = "Readdir"
                /\ lout'.req.handle \notin DOMAIN dir_handles )
        => ( /\ alive'
             /\ lout'.resp.type = "Status"
             /\ lout'.resp.code = "BadMessage"
             /\ file_handles' = file_handles
             /\ dir_handles' = dir_handles ) ]_vars

(***************************************************************************)
(* Properties of the channel and the framing (SpecWire)                    *)
(***************************************************************************)
\* the payload is shorter than its fields require, has bytes left over
\* after them, or the frame declares length 0
FrameMalformed(e) ==
    \/ e.declared = 0
    \/ e.err = "short"
    \/ (e.ok /\ e.consumed < e.declared)

\* C16 (as claimed): a frame whose payload is shorter than its fields
\* require, has bytes left over or declares length 0 is not handed to the
\* engine, ends the connection, and is the last frame looked at.
C16_MalformedFrameFatal ==
    \A i \in 1..Len(log) :
        FrameMalformed(log[i])
        => ( /\ ~log[i].ok
             /\ chan # "open"
             /\ i = Len(log) )

\* C18 (as claimed): a frame is decoded successfully only when its fields
\* take exactly the declared length, and no decoding takes more than that.
C18_DecodeConsumesDeclared ==
    \A i \in 1..Len(log) :
        log[i].ok => log[i].consumed = log[i].declared

\* C19 (as claimed): no frame is given to the decoder before a subsystem
\* request named "sftp" has been accepted on the channel.
C19_NoFrameBeforeSubsystem ==
    log # <<>> => sftp

\* C20 (as claimed): a shell request and a subsystem request with another
\* name than "sftp" are answered with channel failure and the channel is
\* closed; channel success is the answer to the name "sftp" only.
C20_OnlySftpAccepted ==
    /\ (reply.req = "shell" \/ (reply.req = "subsystem" /\ reply.name # "sftp"))
       => (reply.answer = "failure" /\ chan = "closed")
    /\ reply.answer = "success"
       => (reply.req = "subsystem" /\ reply.name = "sftp")

\* C21: a connection has a ClientSession only once the sftp subsystem was
\* started on it; a connection that never starts the subsystem has none
C21_SessionAtSubsystemStart ==
    conn[1].state = "open" => sftp

\* the two path strings of a Symlink payload in the order they are on the
\* wire: after the opcode and the id
WirePaths(payload) ==
    LET a == DeString(Drop(payload, 5))
        b == DeString(a.rest)
    IN  <<a.val, b.val>>

\* C27 (as claimed): of a Symlink request the first path string on the wire
\* is the target path and the second the link path, and the backend is
\* asked for symlink(link path, target path).
C27_SymlinkTargetFirst ==
    \A i \in 1..Len(log) :
        (log[i].ok /\ log[i].packet[1] = 20 /\ log[i].call.op = "symlink")
        => log[i].call.args = <<Str(WirePaths(log[i].payload)[2]),
                                Str(WirePaths(log[i].payload)[1])>>

\* C28 (as claimed): a frame whose opcode is not in the request table, and
\* an Extended request whose name is none of the four, make the decoder
\* return an error value, each its own; neither crashes the caller.
C28_UnknownVariantRecoverable ==
    \A i \in 1..Len(log) :
        log[i].err \in {"opcode", "extname"} => ~log[i].panic

\* C30: the responses of a connection are queued in the order of its request
\* frames, one for each frame processed, and a frame is handed to the engine
\* only when the responses to all frames before it are queued.
C30_ResponsesInRequestOrder ==
    /\ Len(chanOut) <= Len(log)
    /\ \A j \in 1..Len(chanOut) :
        /\ chanOut[j].frame = j
        /\ log[j].ok
        /\ log[j].packet[1] # 1 => chanOut[j].resp.id = log[j].packet[2]
    /\ \A i \in 1..Len(log) :
        log[i].ok => /\ log[i].queued = i - 1
                     /\ (i < Len(log) \/ din.pc # "process") => Len(chanOut) >= i

\* two frames that arrived in one data chunk are both answered
C30_Witness ==
    /\ Len(chanOut) = 2
    /\ Len(log) = 2
    /\ log[1].rest >= log[2].declared + 4

\* the bytes of the frames in the log, as they were on the wire
RECURSIVE LogBytes(_)
LogBytes(l) ==
    IF l = <<>> THEN <<>>
    ELSE SerU32(Head(l).declared) \o Head(l).payload \o LogBytes(Tail(l))

\* the payloads of the complete frames of a byte stream, in order
RECURSIVE Payloads(_)
Payloads(b) ==
    IF Len(b) < 4 \/ Len(b) < 4 + U32Of(b) THEN <<>>
    ELSE <<SubSeq(b, 5, 4 + U32Of(b))>> \o Payloads(Drop(b, 4 + U32Of(b)))

\* the whole stream of the peer: what was decoded, what waits in recv_buf
\* and in the rest of the data() argument, and what is still to be sent
WholeStream == LogBytes(log) \o recv_buf \o din.data \o wire

\* C31: however the stream is split into data() calls, the frames handed to
\* the decoder are the frames of the stream, in order and byte for byte; a
\* partial frame waits in recv_buf, and recv_buf is empty once a frame is
\* complete and decoded.
C31_ReassemblyIndependentOfSplit ==
    chan # "crashed"
    => /\ WholeStream \in Streams
       /\ Len(log) <= Len(Payloads(WholeStream))
       /\ \A i \in 1..Len(log) :
            /\ log[i].payload = Payloads(WholeStream)[i]
            /\ log[i].ok
            /\ log[i].packet = deserialize(Payloads(WholeStream)[i]).val
       /\ Len(recv_buf) >= 4 => Len(recv_buf) < 4 + U32Of(recv_buf)
       /\ din.pc = "process" => recv_buf = <<>>

\* the chunk that completed the first frame ended inside the length field
\* of the second
C31_Witness ==
    /\ Len(log) = 1
    /\ log[1].ok
    /\ log[1].rest > 0
    /\ Len(recv_buf) \in 1..3
    /\ din.pc = "idle"
    /\ Len(wire) > 0

\* the response variant the claim's table gives for a request variant
TableVariant(k) ==
    CASE k \in {"Open", "Opendir"} -> "Handle"
      [] k = "Read" -> "Data"
      [] k \in {"Readdir", "Realpath", "Readlink"} -> "Name"
      [] k \in {"Lstat", "Stat", "Fstat"} -> "Attrs"
      [] k = "Statvfs" -> "ExtendedReply"
      [] k \in {"Close", "Write", "Setstat", "Fsetstat", "Remove", "Mkdir",
                "Rmdir", "Rename", "Symlink", "PosixRename", "Hardlink",
                "Fsync"} -> "Status"
      [] OTHER -> "None"

\* C24: when the backend call of a request succeeds, the response variant
\* is the one the request variant determines: Handle, Data, Name, Attrs,
\* ExtendedReply, or Status with code Ok.
C24_SuccessVariantByRequest ==
    (out # NoOut /\ out.op # "none" /\ out.r = "Ok")
    => /\ out.resp.type = TableVariant(out.req.kind)
       /\ out.resp.type = "Status" => out.resp.code = "Ok"

C24_Witness ==
    /\ out.op = "stat"
    /\ out.r = "Ok"
    /\ out.resp.type = "Attrs"

\* C29: a posix-rename request is handed to the backend's posix_rename, and
\* when the destination exists it is not answered with the Failure that
\* Rename's already-exists condition gives: it is answered Status(Ok).
C29_PosixRenameNoPreCheck ==
    (out.req.kind = "PosixRename" /\ out.op # "none")
    => /\ out.op = "posix_rename"
       /\ (out.r = "DestExists" /\ "posix_rename" \in fs.ops)
          => out.resp = status_resp(out.req.id, "Ok")

C29_Witness ==
    /\ out.req.kind = "PosixRename"
    /\ out.r = "DestExists"
    /\ out.op = "posix_rename"
    /\ out.resp.code = "Ok"

(***************************************************************************)
(* Properties of the local backend (SpecLocalFs)                           *)
(***************************************************************************)
\* the bytes of the file from offset o on, at most n of them
FileRange(o, n) == [i \in 1..Min(n, FileSize - o) |-> FileBytes[o + i]]

\* C22 (as claimed): a Read of len >= 1 at offset o that no system call
\* fails answers Data with the min(len, s - o) bytes of the file from o on
\* when o < s, and Status(Eof) when o >= s.
C22_ReadReturnsFileBytes ==
    (rd.stage = "done" /\ rd.len >= 1
        /\ ~(rd.result.type = "Status" /\ rd.result.code # "Eof"))
    => IF rd.offset < FileSize
       THEN rd.result = DataResp(FileRange(rd.offset, rd.len))
       ELSE rd.result = StatusOf("UnexpectedEof")

\* C37 (as claimed): whatever sizes the partial reads have, the buffer
\* holds after every pass of the loop the bytes read so far, in file order
\* from its start on; no more than len bytes are counted; the bytes returned
\* are the bytes counted; and len = 0 is answered with the end-of-data
\* error.
C37_ReadLoopAppendsChunks ==
    /\ rd.stage \in {"loop", "after"}
       => /\ rd.total_read_len <= rd.len
          /\ \A i \in 1..Min(rd.total_read_len, rd.len) :
                rd.data[i] = FileBytes[rd.offset + i]
    /\ (rd.stage = "done" /\ rd.result.type = "Data")
       => rd.result.data = FileRange(rd.offset, rd.total_read_len)
    /\ (rd.stage = "done" /\ rd.len = 0)
       => rd.result = StatusOf("UnexpectedEof")

RECURSIVE NamesUpTo(_, _)
NamesUpTo(resps, i) ==
    IF i = 0 THEN <<>> ELSE NamesUpTo(resps, i - 1) \o resps[i].names
Range(q) == {q[i] : i \in 1..Len(q)}
NoDup(q) == \A i, j \in 1..Len(q) : q[i] = q[j] => i = j

C25_PacketRoundTrip ==
    (cx.stage = "decoded" /\ cx.kind \in {"client", "server"})
    => (cx.back.ok /\ cx.back.val = cx.val)

C25_Witness ==
    /\ cx.stage = "decoded"
    /\ cx.kind = "client"
    /\ cx.val[1] = 9
    /\ cx.val[4].size = <<(<<0, 0>>)>>
    /\ cx.val[4].permissions = <<>>
    /\ cx.val[4].extended_attrs # <<>>
    /\ cx.back.ok
    /\ cx.back.val[4].size = <<(<<0, 0>>)>>

\* C26: a flags value encoded to its 32-bit word and decoded again is the
\* same value, and the word has exactly the listed bit of every flag that
\* is set: 0x1, 0x2, 0x4, 0x8, 0x80000000 for Attrs and 0x1 .. 0x20 for
\* Pflags.
C26_FlagsRoundTrip ==
    /\ (cx.stage = "decoded" /\ cx.kind = "Pflags")
       => /\ cx.back.ok /\ cx.back.val = cx.val
          /\ cx.bytes = <<0, 0, 0,
                B(cx.val.read) + 2 * B(cx.val.write) + 4 * B(cx.val.append)
                + 8 * B(cx.val.creat) + 16 * B(cx.val.trunc)
                + 32 * B(cx.val.excl)>>
    /\ (cx.stage = "decoded" /\ cx.kind = "Attrsflags")
       => /\ cx.back.ok /\ cx.back.val = cx.val
          /\ cx.bytes = <<128 * B(cx.val.extended), 0, 0,
                B(cx.val.size) + 2 * B(cx.val.uidgid)
                + 4 * B(cx.val.permissions) + 8 * B(cx.val.acmodtime)>>

C26_Witness ==
    /\ cx.stage = "decoded"
    /\ cx.kind = "Pflags"
    /\ cx.val.trunc /\ ~cx.val.creat
    /\ cx.back.ok
    /\ cx.back.val.trunc /\ ~cx.back.val.creat

\* C38 (as claimed): every decoder moves the cursor past exactly the bytes
\* its encoder wrote, the blob decoder included, so that decoding the
\* encoding of a complete packet or flags word succeeds with no byte left
\* unread.
C38_DecodersConsumeWhatEncodersWrote ==
    cx.stage = "decoded"
    => /\ cx.back.ok
       /\ cx.back.rest = <<>>

====
